---- MODULE Spec2Model ----
(***************************************************************************)
(* Task Scheduler + Session Workflow State Machine of the annotation tool. *)
(*                                                                         *)
(*   infra/scheduler.py          Scheduler (submit, worker run, signals)   *)
(*   app/states.py               Annotating / Switching / Submitting       *)
(*   app/controller.py           Controller (intents, Outcome handlers)    *)
(*   app/explorer_controller.py  ExplorerController (request map)          *)
(*   app/workspace.py            Workspace (load, load_from)               *)
(*   app/session.py              WorkspaceSession                          *)
(*                                                                         *)
(* Every handler that runs on the coordinating (GUI) thread is one action. *)
(* Handlers are written as functions from a record of the application      *)
(* state to a record, so that the calls a handler makes compose in the     *)
(* order of the source; Set(R) installs the result as the next state.      *)
(* None is 0 for request ids and NoItem for metadata / images.             *)
(***************************************************************************)
EXTENDS Naturals, Integers, Sequences, FiniteSets, Bags, TLC

\* ------------------------------------------------------------------ bounds
\* Number of Scheduler.submit calls explored (the counter itself is unbounded).
MaxId == 4

\* Number of requests the resource browser makes.
MaxExplorer == 1

\* Number of list requests the resource browser's view issues.
MaxSeq == 4

\* Largest generation a caller of Scheduler.submit passes.
MaxGeneration == 1

\* Number of submit calls after which no caller outside the program calls.
MaxCalls == 3

\* Number of ids at each level of the server's hierarchy.
MaxEntity == 2

\* Number of searches started in a run of the resource browser.
MaxSearches == 1

\* Items the resource browser can offer for selection.
Items == {"X", "Y"}

NoItem == "none"

VARIABLES
    \* Scheduler
    next_id,            \* Scheduler._next_id
    issued,             \* history: the request ids of the Tokens, in call order
    generations,        \* history: the generations of the Tokens, in call order
    pool,               \* tasks started on the QThreadPool, not yet finished
    mailbox,            \* signals emitted by workers, queued for the GUI thread
    delivered,          \* history: bag of the tasks whose signal reached the slots
    \* SegmentationService
    lock,               \* SegmentationService._lock is held
    in_cs,              \* ids of the tasks that are between the model operations
                        \* (set_image, predict) of segment_image / segment_points
    \* Controller
    seg_service,        \* Controller.seg_service is not None
    state,              \* class of Controller._state
    inst,               \* identity of the state object (next_id when it was built)
    step,               \* SwitchingState.step
    req_id,             \* SwitchingState._req_id / SubmittingState._req_id
    target_metadata,    \* SwitchingState.target_metadata
    target_status,      \* SubmittingState.target_status
    bg_seg_req,         \* Controller._bg_seg_req
    bg_poly_req,        \* Controller._bg_poly_req
    cached_mask_sam,    \* Controller._cached_mask_sam is not None
    cached_mask_binary, \* Controller._cached_mask_binary is not None
    timer,              \* Controller._timer is active
    \* WorkspaceSession
    current_metadata,   \* WorkspaceSession.current_metadata
    dirty,              \* WorkspaceSession.dirty
    \* Workspace
    image,              \* item whose image Workspace.image holds
    points,             \* Workspace.points contains a positive point
    editor_sync,        \* PipelineEditor._pipeline is the object Workspace.pipeline
    aliased,            \* ids of the pending tasks whose closure holds the
                        \* Pipeline object the PipelineEditor holds
    edited,             \* ids of the pending tasks whose Pipeline object was
                        \* changed in place after the task was submitted
    \* ExplorerController
    req_map,            \* ExplorerController._req_map (request id -> kind, context)
    \* Explorer (the resource browser's view)
    view,               \* _req_sequence, current_level, _is_searching, _auto_mode,
                        \* whether the progress bar shows, what the list shows
    \* the server and the auto search of the Explorer
    tree,               \* the project / case / image lists the server returns
    auto,               \* Explorer: level, params, current ids, history_stack,
                        \* _auto_mode, _is_searching, _auto_skip_ids, the list
                        \* request under way, and what the search has done
    \* observers
    emits,              \* signals emitted in the step just taken
    sent,               \* number of requests the resource browser has made
    exc,                \* an exception escaped the handler in the step just taken
    saved,              \* history: the point content last saved to or loaded from
                        \* the server for the current item ("unknown": none yet)
    last                \* the step just taken: the intent and its argument, or the
                        \* Outcome channel, the task's kind and whether the Outcome
                        \* carried the active workflow state's stored id

vars == << next_id, issued, pool, mailbox, delivered, seg_service, state,
           inst, step, req_id, target_metadata, target_status, bg_seg_req,
           bg_poly_req, cached_mask_sam, cached_mask_binary,
           timer, current_metadata, dirty, image, points, req_map, emits, exc,
           last, sent, saved, view, editor_sync, aliased, edited, lock, in_cs,
           generations, tree, auto >>

\* --------------------------------------------------- state as a record
Cur ==
    [ next_id |-> next_id, issued |-> issued, generations |-> generations,
      pool |-> pool,
      state |-> state, inst |-> inst, step |-> step, req_id |-> req_id,
      target_metadata |-> target_metadata, target_status |-> target_status,
      bg_seg_req |-> bg_seg_req, bg_poly_req |-> bg_poly_req,
      cached_mask_sam |-> cached_mask_sam,
      cached_mask_binary |-> cached_mask_binary, timer |-> timer,
      current_metadata |-> current_metadata, dirty |-> dirty,
      image |-> image, points |-> points, req_map |-> req_map,
      view |-> view, editor_sync |-> editor_sync, aliased |-> aliased,
      edited |-> edited,
      emits |-> << >>, exc |-> FALSE, blocked |-> FALSE ]

Set(R) ==
    /\ next_id' = R.next_id
    /\ issued' = R.issued
    /\ generations' = R.generations
    /\ pool' = R.pool
    /\ state' = R.state
    /\ inst' = R.inst
    /\ step' = R.step
    /\ req_id' = R.req_id
    /\ target_metadata' = R.target_metadata
    /\ target_status' = R.target_status
    /\ bg_seg_req' = R.bg_seg_req
    /\ bg_poly_req' = R.bg_poly_req
    /\ cached_mask_sam' = R.cached_mask_sam
    /\ cached_mask_binary' = R.cached_mask_binary
    /\ timer' = R.timer
    /\ current_metadata' = R.current_metadata
    /\ dirty' = R.dirty
    /\ image' = R.image
    /\ points' = R.points
    /\ req_map' = R.req_map
    /\ view' = R.view
    /\ editor_sync' = R.editor_sync
    /\ aliased' = R.aliased
    /\ edited' = R.edited
    /\ emits' = R.emits
    /\ exc' = R.exc

\* ------------------------------------------------------------- observers
\* The signals recorded: show_error, freeze_ui (as "freeze_on" / "freeze_off"),
\* entity_status_updated and workflow_finished of the Controller.
Emit(R, sig) == [R EXCEPT !.emits = Append(@, <<sig, "-", "-">>)]

Emit3(R, sig, a, b) == [R EXCEPT !.emits = Append(@, <<sig, a, b>>)]

Count(seq, sig) == Cardinality({i \in DOMAIN seq : seq[i][1] = sig})

\* -------------------------------------------------------------- Scheduler
\* A task as the closure built by the caller: what it does (kind), for which
\* item, with which status, whether the point list it captured holds a
\* positive point, and the workflow state instance that built it (0: none).
Task(kind, item, status, pos, owner) ==
    [kind |-> kind, item |-> item, status |-> status, pos |-> pos, owner |-> owner]

\* The closures that hold a reference to the Pipeline object of the Workspace.
PipelineTasks == {"segment", "bgseg_points", "bgseg_pipeline"}

\* The closure of a new task holds the Pipeline object of the Workspace,
\* which is the PipelineEditor's when the two are in sync.
Captured(R, task) ==
    IF task.kind \in PipelineTasks /\ R.editor_sync THEN {R.next_id} ELSE {}

\* Scheduler.submit with the counter left as it is.
submit_stuck(R, task) ==
    [R EXCEPT !.issued = Append(@, R.next_id),
              !.generations = Append(@, 0),
              !.aliased = @ \cup Captured(R, task),
              !.pool = @ \cup {[n |-> Len(R.issued) + 1, id |-> R.next_id,
                                generation |-> 0] @@ task}]

\* submit with a _done that does not keep the generation.
Scheduler_submit_forgetful(R, task, generation) ==
    [R EXCEPT !.next_id = @ + 1,
              !.issued = Append(@, R.next_id),
              !.generations = Append(@, generation),
              !.aliased = @ \cup Captured(R, task),
              !.pool = @ \cup {[n |-> Len(R.issued) + 1, id |-> R.next_id,
                                generation |-> 0] @@ task}]

\* Scheduler.submit(fn, generation): the Token holds request (the counter's
\* value before the call) and generation; the closure _done started with
\* the task holds the same two (id, generation). n is the position of the
\* call in the sequence of submit calls.
Scheduler_submit(R, task, generation) ==
    [R EXCEPT !.next_id = @ + 1,
              !.issued = Append(@, R.next_id),
              !.generations = Append(@, generation),
              !.aliased = @ \cup Captured(R, task),
              !.pool = @ \cup {[n |-> Len(R.issued) + 1, id |-> R.next_id,
                                generation |-> generation] @@ task}]

\* scheduler.submit(fn = task, generation = 0), as every caller of the
\* program writes it.
submit(R, task) == Scheduler_submit(R, task, 0)

\* The signal _done emits: task_result or task_error (ok), with the request
\* and the generation of the closure.
Outcome(t, ok) ==
    [t |-> t, ok |-> ok, request |-> t.id, generation |-> t.generation]

\* ------------------------------------------- resource browser: requests
\* The context ExplorerController records with a request id: the kind (the
\* list level, or "download"), the _req_seq of the list request's parameters
\* and the image id of a download.
Context(kind, seq, image_id) == [kind |-> kind, seq |-> seq, image_id |-> image_id]

\* ExplorerController.fetch_list(level, params, status_filters)
ExplorerController_fetch_list(R, level, seq) ==
    [submit(R, Task("list", NoItem, level, FALSE, 0))
        EXCEPT !.req_map = (R.next_id :> Context(level, seq, "-")) @@ @]

\* ExplorerController.download_thumbnail(image_id, save_path)
ExplorerController_download_thumbnail(R, image_id) ==
    [submit(R, Task("download", image_id, "-", FALSE, 0))
        EXCEPT !.req_map = (R.next_id :> Context("download", 0, image_id)) @@ @]

\* Explorer.execute_request: the progress bar shows, the sequence number
\* grows, and fetch_requested reaches ExplorerController.fetch_list. The
\* model explores MaxSeq list requests: a step that would issue one more is
\* marked blocked and is not taken.
Explorer_execute_request(R) ==
    IF R.view.req_sequence >= MaxSeq THEN [R EXCEPT !.blocked = TRUE]
    ELSE LET seq == R.view.req_sequence + 1
             R1 == [R EXCEPT !.view.progress = TRUE, !.view.req_sequence = seq]
         IN  ExplorerController_fetch_list(R1, R1.view.current_level, seq)

\* Explorer.on_entity_updated: the store of the model holds one project with
\* one case, so the ids of the entity are those the view is showing.
Explorer_on_entity_updated(R) ==
    IF R.view.is_searching THEN R
    ELSE IF R.view.current_level \in {"image", "case", "project"}
    THEN Explorer_execute_request(R)
    ELSE R

\* ----------------------------------------------------------------- states
\* AnnotatingState.enter
AnnotatingState_enter(R) == Emit(R, "freeze_off")

\* WorkflowState.enter (_report_status freezes the UI)
WorkflowState_enter(R) == Emit(R, "freeze_on")

\* Controller.transition_to(AnnotatingState(self))
transition_to_Annotating(R) ==
    AnnotatingState_enter(
        [R EXCEPT !.state = "Annotating", !.step = "NONE", !.req_id = 0,
                  !.target_metadata = NoItem, !.target_status = "-",
                  !.inst = 0])

\* Workspace.load(path): lo is what the file system gives: "ok" (readable
\* image), "missing" (no such file) or "raise" (unreadable or invalid image).
\* _clear() has run in every case.
Workspace_load(R, item, lo) ==
    [R EXCEPT !.image = IF lo = "ok" THEN item ELSE NoItem,
              !.points = FALSE,
              !.editor_sync = FALSE,
              !.exc = (lo = "raise")]

\* Workspace.export_remote_annotations: the points, or none without an image.
Workspace_export_remote_annotations(R) == R.image # NoItem /\ R.points

\* SwitchingState._do_load
SwitchingState_do_load(R, lo) ==
    LET R1 == Emit([R EXCEPT !.step = "LOAD"], "freeze_on")
        R2 == Workspace_load(R1, R1.target_metadata, lo)
    IN  IF R2.exc THEN R2
        ELSE [submit(R2, Task("load", R2.target_metadata, "-", FALSE, R2.inst))
                 EXCEPT !.req_id = R2.next_id]

\* A start of the sequence that does not wait for the Save Outcome: the Load
\* fetch is submitted right after the Save task.
SwitchingState_start_sequence_eager(R, lo) ==
    IF R.dirty /\ R.current_metadata # NoItem
    THEN LET R1 == Emit([R EXCEPT !.step = "SAVE"], "freeze_on")
         IN  SwitchingState_do_load(
                 submit(R1, Task("save", R1.current_metadata, "Annotating",
                             Workspace_export_remote_annotations(R1), R1.inst)),
                 lo)
    ELSE SwitchingState_do_load(R, lo)

\* A start of the sequence that saves whenever there is a current item,
\* dirty or not.
SwitchingState_start_sequence_always_save(R, lo) ==
    IF R.current_metadata # NoItem
    THEN LET R1 == Emit([R EXCEPT !.step = "SAVE"], "freeze_on")
         IN  [submit(R1, Task("save", R1.current_metadata, "Annotating",
                             Workspace_export_remote_annotations(R1), R1.inst))
                 EXCEPT !.req_id = R1.next_id]
    ELSE SwitchingState_do_load(R, lo)

\* SwitchingState._start_sequence
SwitchingState_start_sequence(R, lo) ==
    IF R.dirty /\ R.current_metadata # NoItem
    THEN LET R1 == Emit([R EXCEPT !.step = "SAVE"], "freeze_on")
         IN  [submit(R1, Task("save", R1.current_metadata, "Annotating",
                              Workspace_export_remote_annotations(R1), R1.inst))
                 EXCEPT !.req_id = R1.next_id]
    ELSE SwitchingState_do_load(R, lo)

\* An entry into Switching that records the target as the current item at
\* once.
transition_to_Switching_hasty(R, M, lo) ==
    SwitchingState_start_sequence(
        WorkflowState_enter(
            [R EXCEPT !.state = "Switching", !.step = "INIT", !.req_id = 0,
                      !.target_metadata = M, !.target_status = "-",
                      !.current_metadata = M,
                      !.inst = R.next_id]), lo)

\* Controller.transition_to(SwitchingState(self, target_metadata = M))
transition_to_Switching(R, M, lo) ==
    SwitchingState_start_sequence(
        WorkflowState_enter(
            [R EXCEPT !.state = "Switching", !.step = "INIT", !.req_id = 0,
                      !.target_metadata = M, !.target_status = "-",
                      !.inst = R.next_id]), lo)

\* An entry into Submitting whose task pushes with the status "Annotating".
transition_to_Submitting_untagged(R, s) ==
    LET R1 == WorkflowState_enter(
                [R EXCEPT !.state = "Submitting", !.step = "NONE", !.req_id = 0,
                          !.target_metadata = NoItem, !.target_status = s,
                          !.inst = R.next_id])
    IN  [submit(R1, Task("submit", R1.current_metadata, "Annotating",
                         Workspace_export_remote_annotations(R1), R1.inst))
            EXCEPT !.req_id = R1.next_id]

\* Controller.transition_to(SubmittingState(self, status = s))
transition_to_Submitting(R, s) ==
    LET R1 == WorkflowState_enter(
                [R EXCEPT !.state = "Submitting", !.step = "NONE", !.req_id = 0,
                          !.target_metadata = NoItem, !.target_status = s,
                          !.inst = R.next_id])
    IN  [submit(R1, Task("submit", R1.current_metadata, s,
                         Workspace_export_remote_annotations(R1), R1.inst))
            EXCEPT !.req_id = R1.next_id]

\* Controller.notify_status_update: entity_status_updated runs the view's
\* on_entity_updated slot before the next statement.
notify_status_update(R, item, status) ==
    LET R1 == Explorer_on_entity_updated(
                  Emit3(R, "entity_status_updated", item, status))
    IN  IF status \in {"Submitted", "Skipped"}
        THEN Emit3(R1, "workflow_finished", status, "-")
        ELSE R1

\* The annotations the server stores: those of "X" hold a positive point,
\* those of any other item hold none.
StoredPoints(item) == item = "X"

\* Workspace.load_from(data): nothing happens without an image; otherwise
\* the points (the pipeline, the polygons) are replaced by the stored ones.
Workspace_load_from(R, item) ==
    IF R.image = NoItem THEN R
    ELSE [R EXCEPT !.points = StoredPoints(item), !.editor_sync = FALSE]

\* MainWindow._on_image_selected, the slot of Controller.image_selected:
\* PipelineEditor.set_pipeline(workspace.pipeline). Closures that hold the
\* object the editor held before are out of the editor's reach from now on.
Window_on_image_selected(R) ==
    [R EXCEPT !.editor_sync = TRUE, !.aliased = {}]

\* PipelineEditor._add_processor / _on_remove_processor / _on_rows_moved:
\* the Pipeline object the editor holds is changed in place, and with it the
\* pipeline of every pending closure that holds the same object.
PipelineEditor_edit(R) ==
    [R EXCEPT !.edited = @ \cup R.aliased]

\* A Segment sub-step that submits its task and keeps the id of the Load
\* task as the stored id.
SwitchingState_do_segment_unstored(R, payload) ==
    LET R1 == Emit([R EXCEPT !.step = "SEGMENT"], "freeze_on")
        R2 == Workspace_load_from(R1, R1.target_metadata)
        R3 == Window_on_image_selected(R2)
    IN  IF ~seg_service THEN transition_to_Annotating(R3)
        ELSE IF R3.image = NoItem THEN transition_to_Annotating(R3)
        ELSE submit(R3, Task("segment", R3.image, "-", R3.points, R3.inst))

\* SwitchingState._do_segment
SwitchingState_do_segment(R, payload) ==
    LET R1 == Emit([R EXCEPT !.step = "SEGMENT"], "freeze_on")
        R2 == Workspace_load_from(R1, R1.target_metadata)
        R3 == Window_on_image_selected(R2)
    IN  IF ~seg_service THEN transition_to_Annotating(R3)
        ELSE IF R3.image = NoItem THEN transition_to_Annotating(R3)
        ELSE [submit(R3, Task("segment", R3.image, "-", R3.points, R3.inst))
                 EXCEPT !.req_id = R3.next_id]

\* Controller._handle_segment_image_result
handle_segment_image_result(R, t) ==
    [R EXCEPT !.cached_mask_sam = t.pos, !.cached_mask_binary = t.pos]

\* SwitchingState.handle_result
SwitchingState_handle_result(R, request_id, t, payload, lo) ==
    IF request_id # R.req_id THEN R
    ELSE IF R.step = "SAVE" THEN
        LET R1 == IF R.current_metadata # NoItem
                  THEN notify_status_update(R, R.current_metadata, "Annotating")
                  ELSE R
        IN  SwitchingState_do_load([R1 EXCEPT !.dirty = FALSE], lo)
    ELSE IF R.step = "LOAD" THEN
        LET R1 == [R EXCEPT !.current_metadata = R.target_metadata]
        IN  IF payload = "bad" THEN [R1 EXCEPT !.exc = TRUE]
            ELSE SwitchingState_do_segment(R1, payload)
    ELSE IF R.step = "SEGMENT" THEN
        transition_to_Annotating(
            [handle_segment_image_result(R, t) EXCEPT !.dirty = FALSE])
    ELSE R

\* A handle_result of Submitting that tells no observer.
SubmittingState_handle_result_quiet(R, request_id) ==
    IF request_id # R.req_id THEN R
    ELSE transition_to_Annotating([R EXCEPT !.dirty = FALSE])

\* SubmittingState.handle_result
SubmittingState_handle_result(R, request_id) ==
    IF request_id # R.req_id THEN R
    ELSE LET R1 == IF R.current_metadata # NoItem
                   THEN notify_status_update(R, R.current_metadata, R.target_status)
                   ELSE R
         IN  transition_to_Annotating([R1 EXCEPT !.dirty = FALSE])

\* State.handle_result, dispatched on the class of Controller._state
State_handle_result(R, request_id, t, payload, lo) ==
    IF R.state = "Switching"
    THEN SwitchingState_handle_result(R, request_id, t, payload, lo)
    ELSE IF R.state = "Submitting"
    THEN SubmittingState_handle_result(R, request_id)
    ELSE R

\* A handle_error that returns to Annotating without telling the user.
WorkflowState_handle_error_silent(R, request_id) ==
    transition_to_Annotating(R)

\* A handle_error that carries on with the Load step after a failed Save.
WorkflowState_handle_error_carry_on(R, request_id) ==
    IF R.state = "Switching" /\ R.step = "SAVE"
    THEN SwitchingState_do_load(Emit(R, "show_error"), "ok")
    ELSE transition_to_Annotating(Emit(R, "show_error"))

\* WorkflowState.handle_error: request_id is not looked at.
WorkflowState_handle_error(R, request_id) ==
    transition_to_Annotating(Emit(R, "show_error"))

\* State.handle_error, dispatched on the class of Controller._state
State_handle_error(R, request_id) ==
    IF R.state \in {"Switching", "Submitting"}
    THEN WorkflowState_handle_error(R, request_id)
    ELSE R

\* ------------------------------------------------------------- Controller
\* What a task's return value holds, by the service function it called
\* (app/services.py): segment_image and segment_points return a raw mask iff
\* a positive point was passed; segment_pipeline has no "mask_sam" key and
\* always a processed mask; download_image returns a path (not a dict).
ResultIsDict(t) == t.kind # "download"

ResultMaskSam(t) == t.kind \in {"segment", "bgseg_points"} /\ t.pos

ResultMaskBinary(t) ==
    \/ t.kind \in {"segment", "bgseg_points"} /\ t.pos
    \/ t.kind = "bgseg_pipeline"

\* Controller._handle_segment_common_result: the masks are cached, then
\* segment_mask and generate_polygon are emitted; with the latter the
\* polygons of the Workspace are replaced (Workspace.set_polygons).
handle_segment_common_result(R, t) ==
    Emit(Emit([R EXCEPT !.cached_mask_sam = IF ResultMaskSam(t) THEN TRUE ELSE @,
                        !.cached_mask_binary = ResultMaskBinary(t)],
              "segment_mask"),
         "generate_polygon")

\* Controller._handle_manual_polygon_result: generate_polygons always returns
\* a polygon list here, because the task is only built with a mask.
handle_manual_polygon_result(R, t) ==
    Emit([R EXCEPT !.dirty = TRUE], "freeze_off")

\* No except branch: the exception leaves the slot.
on_task_except_absent(R) == R

\* the except branch of Controller._on_task_result / _on_task_error (the
\* message shown starts with "Internal System Error")
on_task_except(R) ==
    LET R1 == Emit3([R EXCEPT !.exc = FALSE], "show_error", "internal", "-")
    IN  IF R1.state # "Annotating"
        THEN transition_to_Annotating(R1)
        ELSE Emit(R1, "freeze_off")

\* An _on_task_result that applies every background segmentation result,
\* whatever its id.
Controller_on_task_result_any_seg(R, request_id, t, payload, lo) ==
        LET R1 == State_handle_result(R, request_id, t, payload, lo)
            R2 == IF t.kind \in {"bgseg_points", "bgseg_pipeline"} /\ ResultIsDict(t)
                  THEN handle_segment_common_result(R1, t)
                  ELSE R1
            R3 == IF request_id = R2.bg_poly_req /\ ResultIsDict(t)
                  THEN handle_manual_polygon_result(R2, t)
                  ELSE R2
        IN  IF R1.exc THEN on_task_except(R1) ELSE R3

\* Controller._on_task_result
Controller_on_task_result(R, request_id, t, payload, lo) ==
        LET R1 == State_handle_result(R, request_id, t, payload, lo)
            R2 == IF request_id = R1.bg_seg_req /\ ResultIsDict(t)
                  THEN handle_segment_common_result(R1, t)
                  ELSE R1
            R3 == IF request_id = R2.bg_poly_req /\ ResultIsDict(t)
                  THEN handle_manual_polygon_result(R2, t)
                  ELSE R2
        IN  IF R1.exc THEN on_task_except(R1) ELSE R3

\* Controller._on_task_error
Controller_on_task_error(R, request_id) ==
        LET R1 == State_handle_error(R, request_id)
            R2 == IF request_id = R1.bg_poly_req THEN Emit(R1, "freeze_off") ELSE R1
        IN  IF request_id \in {R1.bg_seg_req, R1.bg_poly_req}
            THEN Emit(R2, "show_error")
            ELSE R1

\* ------------------------------------------ resource browser: responses
\* Controller.on_image_selected, as the slot of Explorer.image_selected
Controller_on_image_selected(R, M, lo) ==
    IF R.state = "Annotating" THEN transition_to_Switching(R, M, lo) ELSE R

\* What a list task returns: a response whose code is not 200, one with no
\* (valid) item, one with items, one with items whose files are in the cache.
ListResponses == {"error", "empty", "items", "cached"}

\* The first image of a list of images.
FirstImage == "X"

\* What the list widget shows and the _req_seq of the response it came from.
Shown(what, seq) == [what |-> what, seq |-> seq]

\* Explorer.navigate_to(level): the history grows by the level left, the
\* list is reset, the level is requested.
Explorer_navigate_to(R, level) ==
    Explorer_execute_request([R EXCEPT !.view.current_level = level,
                                       !.view.list = Shown("blank", 0)])

\* The level on top of history_stack: levels are entered project, case, image.
Parent(level) == IF level = "image" THEN "case" ELSE "project"

\* Explorer.on_back
Explorer_on_back(R) ==
    IF R.view.current_level \notin {"case", "image"} THEN R
    ELSE Explorer_execute_request([R EXCEPT !.view.current_level = Parent(@),
                                            !.view.list = Shown("blank", 0)])

\* Explorer._handle_auto_load_logic
Explorer_handle_auto_load_logic(R, req_type, resp, lo) ==
    IF resp = "empty"
    THEN IF R.view.current_level \in {"case", "image"}
         THEN Explorer_on_back(R)
         ELSE [R EXCEPT !.view.is_searching = FALSE,
                        !.view.list = Shown("notask", 0)]
    ELSE IF req_type = "image"
    THEN LET R1 == [R EXCEPT !.view.is_searching = FALSE]
             R2 == IF resp = "items"
                   THEN ExplorerController_download_thumbnail(R1, FirstImage)
                   ELSE R1
         IN  Explorer_execute_request(Controller_on_image_selected(R2, FirstImage, lo))
    ELSE IF req_type = "case" THEN Explorer_navigate_to(R, "image")
    ELSE Explorer_navigate_to(R, "case")

\* on_data_loaded without the comparison of sequence numbers.
Explorer_on_data_loaded_any_seq(R, req_type, seq, resp, lo) ==
    IF req_type # R.view.current_level THEN R
    ELSE LET R1 == [R EXCEPT !.view.progress = FALSE]
         IN  IF resp = "error"
             THEN [R1 EXCEPT !.view.is_searching = FALSE,
                             !.view.list = Shown("error", seq)]
             ELSE IF R1.view.is_searching
             THEN Explorer_handle_auto_load_logic(R1, req_type, resp, lo)
             ELSE IF resp = "empty"
             THEN [R1 EXCEPT !.view.list = Shown("nodata", seq)]
             ELSE LET R2 == [R1 EXCEPT !.view.list = Shown("items", seq)]
                  IN  IF req_type = "image" /\ resp = "items"
                      THEN ExplorerController_download_thumbnail(R2, FirstImage)
                      ELSE R2

\* Explorer.on_data_loaded(req_type, response, request_params)
Explorer_on_data_loaded(R, req_type, seq, resp, lo) ==
    IF req_type # R.view.current_level THEN R
    ELSE IF seq # R.view.req_sequence THEN R
    ELSE LET R1 == [R EXCEPT !.view.progress = FALSE]
         IN  IF resp = "error"
             THEN [R1 EXCEPT !.view.is_searching = FALSE,
                             !.view.list = Shown("error", seq)]
             ELSE IF R1.view.is_searching
             THEN Explorer_handle_auto_load_logic(R1, req_type, resp, lo)
             ELSE IF resp = "empty"
             THEN [R1 EXCEPT !.view.list = Shown("nodata", seq)]
             ELSE LET R2 == [R1 EXCEPT !.view.list = Shown("items", seq)]
                  IN  IF req_type = "image" /\ resp = "items"
                      THEN ExplorerController_download_thumbnail(R2, FirstImage)
                      ELSE R2

\* Explorer.on_data_error(err_msg)
Explorer_on_data_error(R) ==
    [R EXCEPT !.view.progress = FALSE,
              !.view.is_searching = FALSE,
              !.view.list = IF @.what = "blank" THEN Shown("neterror", 0) ELSE @]

\* ----------------------------------------------------- ExplorerController
\* ExplorerController._on_task_result; the signals run the view's slots.
\* (on_thumbnail_ready sets the picture of an item widget, which the model
\* does not hold.)
Explorer_on_task_result(R, request_id, resp, lo) ==
    IF request_id \notin DOMAIN R.req_map THEN R
    ELSE LET c == R.req_map[request_id]
             R1 == [R EXCEPT !.req_map = [k \in DOMAIN @ \ {request_id} |-> @[k]]]
         IN  IF c.kind = "download"
             THEN Emit3(R1, "thumbnail_ready", c.image_id, "-")
             ELSE Explorer_on_data_loaded(
                      Emit3(R1, "file_list_loaded", c.kind, ToString(c.seq)),
                      c.kind, c.seq, resp, lo)

\* ExplorerController._on_task_error: both error signals carry str(err) only.
Explorer_on_task_error(R, request_id) ==
    IF request_id \notin DOMAIN R.req_map THEN R
    ELSE LET c == R.req_map[request_id]
             R1 == [R EXCEPT !.req_map = [k \in DOMAIN @ \ {request_id} |-> @[k]]]
         IN  IF c.kind = "download"
             THEN Emit3(R1, "thumbnail_error", "-", "-")
             ELSE Explorer_on_data_error(Emit3(R1, "file_list_error", "-", "-"))

\* ----------------------------------------------- resource browser: search
\* Ids of projects, cases and images; 0 stands for "no id" (the empty string
\* the Explorer starts with).
Entities == 1 .. MaxEntity

\* A hierarchy as the server lists it under the filters of a search
\* (Pending, Annotating): the projects, the project of each case and the
\* case of each image (0: there is no such case or image), and the order of
\* its lists. Ids are unique within a level and may coincide across levels.
Trees ==
    { T \in [ projects : SUBSET Entities,
              case_of  : [Entities -> 0 .. MaxEntity],
              image_of : [Entities -> 0 .. MaxEntity],
              order    : {"asc", "desc"} ] :
        /\ \A c \in Entities : T.case_of[c] \in T.projects \cup {0}
        /\ \A i \in Entities :
              T.image_of[i] = 0 \/ T.case_of[T.image_of[i]] # 0 }

\* The hierarchy of a program run in which the search is not looked at.
NoTree ==
    [ projects |-> {}, case_of |-> [c \in Entities |-> 0],
      image_of |-> [i \in Entities |-> 0], order |-> "asc" ]

\* The ids of S as a list in the given order.
RECURSIVE Listing(_, _)
Listing(S, order) ==
    IF S = {} THEN << >>
    ELSE LET x == IF order = "asc"
                  THEN CHOOSE y \in S : \A z \in S : y <= z
                  ELSE CHOOSE y \in S : \A z \in S : y >= z
         IN  << x >> \o Listing(S \ {x}, order)

\* The items of the list the fetch task returns (list_projects, list_cases,
\* list_images), by id.
ProjectService_list(T, level, params) ==
    IF level = "project" THEN Listing(T.projects, T.order)
    ELSE IF level = "case"
    THEN Listing({c \in Entities : T.case_of[c] = params.project_id}, T.order)
    ELSE Listing({i \in Entities :
                     /\ T.image_of[i] = params.case_id
                     /\ T.case_of[params.case_id] = params.project_id},
                 T.order)

NoParams == [project_id |-> 0, case_id |-> 0]

NoRequest == [level |-> "none", params |-> NoParams]

\* Explorer.__init__ followed by start(): the view is at the project level
\* with an empty history_stack and its first list request under way.
ExplorerInit ==
    [ current_level |-> "project", current_params |-> NoParams,
      current_project_id |-> 0, current_case_id |-> 0,
      history_stack |-> << >>,
      auto_mode |-> TRUE, is_searching |-> FALSE, auto_skip_ids |-> {},
      request |-> [level |-> "project", params |-> NoParams],
      result |-> "none",
      selected |-> [id |-> 0, project_id |-> 0, case_id |-> 0],
      descents |-> << >>, searches |-> 0 ]

\* Explorer.execute_request: the request carries the level and a copy of
\* current_params, with a new sequence number; it is now the one the view
\* waits for.
Auto_execute_request(A) ==
    [A EXCEPT !.request = [level |-> A.current_level,
                           params |-> A.current_params]]

\* Explorer.navigate_to(level, params)
Auto_navigate_to(A, level, params) ==
    LET A1 == IF A.current_level # "root"
              THEN [A EXCEPT !.history_stack =
                        Append(@, [level |-> A.current_level,
                                   params |-> A.current_params,
                                   project_id |-> A.current_project_id,
                                   case_id |-> A.current_case_id])]
              ELSE A
    IN  Auto_execute_request(
            [A1 EXCEPT !.current_level = level, !.current_params = params])

\* on_back without the skip set: the child the search leaves is not
\* recorded.
Auto_on_back_forgetful(A) ==
    IF A.history_stack = << >> THEN A
    ELSE LET prev == A.history_stack[Len(A.history_stack)]
         IN  Auto_execute_request(
                 [A EXCEPT !.history_stack = SubSeq(@, 1, Len(@) - 1),
                           !.current_level = prev.level,
                           !.current_params = prev.params,
                           !.current_project_id = prev.project_id,
                           !.current_case_id = prev.case_id])

\* Explorer.on_back
Auto_on_back(A) ==
    IF A.history_stack = << >> THEN A
    ELSE LET A1 == IF ~A.is_searching THEN A
                   ELSE IF A.current_level = "image" /\ A.current_case_id # 0
                   THEN [A EXCEPT !.auto_skip_ids = @ \cup {A.current_case_id}]
                   ELSE IF A.current_level = "case" /\ A.current_project_id # 0
                   THEN [A EXCEPT !.auto_skip_ids = @ \cup {A.current_project_id}]
                   ELSE A
             prev == A.history_stack[Len(A.history_stack)]
         IN  Auto_execute_request(
                 [A1 EXCEPT !.history_stack = SubSeq(@, 1, Len(@) - 1),
                            !.current_level = prev.level,
                            !.current_params = prev.params,
                            !.current_project_id = prev.project_id,
                            !.current_case_id = prev.case_id])

\* Explorer._handle_auto_load_logic(req_type, items). descents records the
\* projects and cases the search goes into.
Auto_handle_auto_load_logic(A, req_type, items) ==
    LET Valid(it) == it \notin A.auto_skip_ids
        valid_items == SelectSeq(items, Valid)
    IN  IF valid_items = << >>
        THEN IF A.history_stack # << >>
             THEN Auto_on_back(A)
             ELSE [A EXCEPT !.is_searching = FALSE, !.result = "no_work"]
        ELSE LET target == valid_items[1]
             IN  IF req_type = "image"
                 THEN Auto_execute_request(
                          [A EXCEPT !.is_searching = FALSE,
                                    !.result = "selected",
                                    !.selected =
                                        [id |-> target,
                                         project_id |-> A.current_project_id,
                                         case_id |-> A.current_case_id]])
                 ELSE IF req_type = "case"
                 THEN Auto_navigate_to(
                          [A EXCEPT !.current_case_id = target,
                                    !.descents = Append(@, <<"case", target>>)],
                          "image",
                          [project_id |-> A.current_project_id,
                           case_id |-> target])
                 ELSE Auto_navigate_to(
                          [A EXCEPT !.current_project_id = target,
                                    !.current_case_id = 0,
                                    !.descents = Append(@, <<"project", target>>)],
                          "case",
                          [project_id |-> target, case_id |-> 0])

\* Explorer.on_data_loaded for the response of the request the view waits
\* for: code is the response's code (200 or not), items its list.
Auto_on_data_loaded(A, req_type, code, items) ==
    IF req_type # A.current_level THEN A
    ELSE IF code # 200
    THEN IF A.is_searching
         THEN [A EXCEPT !.is_searching = FALSE, !.result = "error"]
         ELSE A
    ELSE IF A.is_searching
    THEN Auto_handle_auto_load_logic(A, req_type, items)
    ELSE A

\* Explorer.on_data_error
Auto_on_data_error(A) ==
    IF A.is_searching
    THEN [A EXCEPT !.is_searching = FALSE, !.result = "interrupted"]
    ELSE A

\* Explorer.try_auto_load
Auto_try_auto_load(A) ==
    IF ~A.auto_mode THEN A
    ELSE Auto_execute_request(
             [A EXCEPT !.is_searching = TRUE, !.result = "none",
                       !.descents = << >>, !.searches = @ + 1])

\* Explorer._on_auto_mode_toggled(checked)
Auto_on_auto_mode_toggled(A, checked) ==
    LET A1 == [A EXCEPT !.auto_mode = checked]
    IN  IF checked
        THEN Auto_try_auto_load([A1 EXCEPT !.auto_skip_ids = {}])
        ELSE A1

\* Explorer.on_item_double_clicked on the item with id target, at the
\* project or the case level.
Auto_on_item_double_clicked(A, target) ==
    IF A.current_level = "project"
    THEN Auto_navigate_to(
             [A EXCEPT !.current_project_id = target, !.current_case_id = 0],
             "case", [project_id |-> target, case_id |-> 0])
    ELSE IF A.current_level = "case"
    THEN Auto_navigate_to(
             [A EXCEPT !.current_case_id = target],
             "image", [project_id |-> A.current_project_id, case_id |-> target])
    ELSE A

\* ------------------------------------------------------------------ Init
\* The program after construction.
ProgramInit ==
    /\ next_id = 1
    /\ issued = << >>
    /\ generations = << >>
    /\ pool = {}
    /\ mailbox = {}
    /\ delivered = EmptyBag
    /\ seg_service \in BOOLEAN
    /\ state = "Annotating"
    /\ inst = 0
    /\ step = "NONE"
    /\ req_id = 0
    /\ target_metadata = NoItem
    /\ target_status = "-"
    /\ bg_seg_req = 0
    /\ bg_poly_req = 0
    /\ cached_mask_sam = FALSE
    /\ cached_mask_binary = FALSE
    /\ timer = FALSE
    /\ current_metadata = NoItem
    /\ dirty = FALSE
    /\ image = NoItem
    /\ points = FALSE
    /\ req_map = << >>
    /\ editor_sync = FALSE
    /\ aliased = {}
    /\ edited = {}
    /\ lock = FALSE
    /\ in_cs = {}
    /\ view = [req_sequence |-> 0, current_level |-> "root",
               is_searching |-> FALSE, auto_mode |-> TRUE, progress |-> TRUE,
               list |-> [what |-> "blank", seq |-> 0]]
    /\ emits = << >>
    /\ exc = FALSE
    /\ sent = 0
    /\ saved = "unknown"
    /\ last = [op |-> "init", arg |-> "-", hit |-> FALSE]

Init == ProgramInit /\ tree = NoTree /\ auto = ExplorerInit

\* The program after construction, at a server with any of the hierarchies.
SearchInit ==
    ProgramInit /\ seg_service /\ tree \in Trees /\ auto = ExplorerInit

\* --------------------------------------------------------------- actions
LoadOutcomes == {"ok", "missing", "raise"}

\* What a fetch returns: a response with data.annotations, or one without.
Payloads == {"good", "bad"}

\* An intent may start new work while fewer than MaxId tasks were submitted.
CanSubmit == Len(issued) < MaxId

sched == << mailbox, delivered, seg_service, sent, saved, lock, in_cs >>

Intent(op, arg) ==
    /\ last' = [op |-> op, arg |-> arg, hit |-> FALSE]
    /\ UNCHANGED << tree, auto >>

\* A select that does nothing when M is already the current item.
on_image_selected_skip_current(M, lo) ==
    /\ Intent("select", M)
    /\ CanSubmit
    /\ Set(IF state = "Annotating" /\ M # current_metadata
           THEN transition_to_Switching(Cur, M, lo)
           ELSE Cur)
    /\ UNCHANGED sched

\* A select that a Switching state takes as a new target: the sequence
\* starts again for M.
on_image_selected_retargeting(M, lo) ==
    /\ Intent("select", M)
    /\ CanSubmit
    /\ Set(IF state \in {"Annotating", "Switching"}
           THEN transition_to_Switching(Cur, M, lo)
           ELSE Cur)
    /\ UNCHANGED sched

\* Controller.on_image_selected(metadata)
on_image_selected(M, lo) ==
    /\ Intent("select", M)
    /\ CanSubmit
    /\ Set(IF state = "Annotating" THEN transition_to_Switching(Cur, M, lo)
           ELSE Cur)
    /\ UNCHANGED sched

\* A submit that does not look for a current item.
on_submit_current_always ==
    /\ Intent("submit", "-")
    /\ CanSubmit
    /\ Set(IF state = "Annotating"
           THEN transition_to_Submitting(Cur, "Submitted")
           ELSE Cur)
    /\ UNCHANGED sched

\* Controller.on_submit_current
on_submit_current ==
    /\ Intent("submit", "-")
    /\ CanSubmit
    /\ Set(IF state = "Annotating" /\ current_metadata # NoItem
           THEN transition_to_Submitting(Cur, "Submitted")
           ELSE Cur)
    /\ UNCHANGED sched

\* Controller.on_abolish_current
on_abolish_current ==
    /\ Intent("abolish", "-")
    /\ CanSubmit
    /\ Set(IF state = "Annotating" /\ current_metadata # NoItem
           THEN transition_to_Submitting(Cur, "Skipped")
           ELSE Cur)
    /\ UNCHANGED sched

\* Controller.on_action_generate_polygons
on_action_generate_polygons ==
    /\ Intent("other", "-")
    /\ CanSubmit
    /\ Set(IF ~seg_service THEN Cur
           ELSE IF ~cached_mask_binary THEN Cur
           ELSE IF image = NoItem THEN Cur
           ELSE LET R1 == Emit(Cur, "freeze_on")
                IN  [submit(R1, Task("poly", image, "-", FALSE, 0))
                        EXCEPT !.bg_poly_req = R1.next_id])
    /\ UNCHANGED sched

\* A point edit that segments at once instead of starting the timer.
on_update_points_undebounced(pos) ==
    /\ Intent("points", "-")
    /\ LET R1 == [Cur EXCEPT !.dirty = TRUE, !.points = pos]
       IN  Set(IF ~seg_service \/ R1.state # "Annotating" \/ R1.image = NoItem
               THEN R1
               ELSE [submit(R1, Task("bgseg_points", R1.image, "-", R1.points, 0))
                        EXCEPT !.bg_seg_req = R1.next_id])
    /\ UNCHANGED sched

\* Controller.on_update_points(points): _schedule_segmentation (re)starts
\* the single-shot timer.
on_update_points(pos) ==
    /\ Intent("points", "-")
    /\ Set([Cur EXCEPT !.dirty = TRUE, !.points = pos, !.timer = TRUE])
    /\ UNCHANGED sched

\* Controller._run_pipeline_segmentation
run_pipeline_segmentation(R) ==
    IF ~seg_service THEN R
    ELSE IF R.image = NoItem THEN R
    ELSE [submit(R, Task("bgseg_pipeline", R.image, "-", FALSE, 0))
             EXCEPT !.bg_seg_req = R.next_id]

\* A pipeline change that goes through the debounce timer.
on_update_pipeline_debounced ==
    /\ Intent("pipeline", "-")
    /\ CanSubmit
    /\ Set([PipelineEditor_edit(Cur) EXCEPT !.dirty = TRUE, !.timer = TRUE])
    /\ UNCHANGED sched

\* Controller.on_update_pipeline, the slot of PipelineEditor.pipeline_changed,
\* which the editor emits after it has changed its Pipeline object.
on_update_pipeline ==
    /\ Intent("pipeline", "-")
    /\ CanSubmit
    /\ LET R1 == [PipelineEditor_edit(Cur) EXCEPT !.dirty = TRUE]
       IN  Set(IF R1.image # NoItem /\ R1.cached_mask_sam
               THEN run_pipeline_segmentation(R1)
               ELSE R1)
    /\ UNCHANGED sched

\* Controller.on_update_polygons / on_update_polygons_from_canvas
on_update_polygons ==
    /\ Intent("other", "-")
    /\ Set([Cur EXCEPT !.dirty = TRUE])
    /\ UNCHANGED sched

\* A timeout handler that does not look at the state.
on_debounce_timeout_any_state ==
    /\ Intent("timeout", "-")
    /\ timer
    /\ CanSubmit
    /\ LET R1 == [Cur EXCEPT !.timer = FALSE]
       IN  Set(IF ~seg_service THEN R1
               ELSE IF R1.image = NoItem THEN R1
               ELSE [submit(R1, Task("bgseg_points", R1.image, "-", R1.points, 0))
                        EXCEPT !.bg_seg_req = R1.next_id])
    /\ UNCHANGED sched

\* Controller._on_debounce_timeout (the single-shot timer expires)
on_debounce_timeout ==
    /\ Intent("timeout", "-")
    /\ timer
    /\ CanSubmit
    /\ LET R1 == [Cur EXCEPT !.timer = FALSE]
       IN  Set(IF ~seg_service THEN R1
               ELSE IF R1.state # "Annotating" THEN R1
               ELSE IF R1.image = NoItem THEN R1
               ELSE [submit(R1, Task("bgseg_points", R1.image, "-", R1.points, 0))
                        EXCEPT !.bg_seg_req = R1.next_id])
    /\ UNCHANGED sched

\* ExplorerController.download_thumbnail
download_thumbnail ==
    /\ Intent("other", "-")
    /\ CanSubmit
    /\ sent < MaxExplorer
    /\ sent' = sent + 1
    /\ Set(ExplorerController_download_thumbnail(Cur, FirstImage))
    /\ UNCHANGED << mailbox, delivered, seg_service, saved, lock, in_cs >>

\* The generations a caller passes.
Generations == 0..MaxGeneration

\* A call of Scheduler.submit by any caller: some task, and a generation
\* that is given or left out ("generation: int = 0" in the signature).
Scheduler_submit_call(given, g) ==
    /\ Intent("submit_call", IF given THEN ToString(g) ELSE "default")
    /\ Len(issued) < MaxCalls
    /\ Set(Scheduler_submit(Cur, Task("probe", NoItem, "-", FALSE, 0),
                            IF given THEN g ELSE 0))
    /\ UNCHANGED sched

\* Explorer.start: the dock is shown after the login and the view opens the
\* list of projects.
Explorer_start ==
    /\ Intent("browse", "start")
    /\ CanSubmit
    /\ view.current_level = "root"
    /\ LET R1 == Explorer_navigate_to(Cur, "project")
       IN  ~R1.blocked /\ Set(R1)
    /\ UNCHANGED sched

\* Explorer.on_item_double_clicked on an item that holds data
on_item_double_clicked(M, lo) ==
    /\ Intent("browse", "open")
    /\ CanSubmit
    /\ view.list.what = "items"
    /\ LET R1 == IF view.current_level = "project"
                 THEN Explorer_navigate_to(Cur, "case")
                 ELSE IF view.current_level = "case"
                 THEN Explorer_navigate_to(Cur, "image")
                 ELSE Controller_on_image_selected(Cur, M, lo)
       IN  ~R1.blocked /\ Set(R1)
    /\ UNCHANGED sched

\* Explorer.on_back from the tool bar, with a level to go back to
on_back ==
    /\ Intent("browse", "back")
    /\ CanSubmit
    /\ view.current_level \in {"case", "image"}
    /\ LET R1 == Explorer_on_back(Cur)
       IN  ~R1.blocked /\ Set(R1)
    /\ UNCHANGED sched

\* Explorer._on_query_status_*_changed: a status filter is toggled
on_query_status_changed ==
    /\ Intent("browse", "filter")
    /\ CanSubmit
    /\ view.current_level # "root"
    /\ LET R1 == IF ~view.is_searching THEN Explorer_execute_request(Cur) ELSE Cur
       IN  ~R1.blocked /\ Set(R1)
    /\ UNCHANGED sched

\* Explorer._on_auto_mode_toggled(checked), checked being the new state of
\* the tool bar's action; try_auto_load starts a search.
on_auto_mode_toggled ==
    /\ Intent("browse", "auto")
    /\ CanSubmit
    /\ view.current_level # "root"
    /\ LET checked == ~view.auto_mode
           R1 == [Cur EXCEPT !.view.auto_mode = checked]
           R2 == IF checked
                 THEN Explorer_execute_request([R1 EXCEPT !.view.is_searching = TRUE])
                 ELSE R1
       IN  ~R2.blocked /\ Set(R2)
    /\ UNCHANGED sched

\* The tasks whose function takes the lock of the SegmentationService:
\* segment_image and segment_points.
LockTasks == {"segment", "bgseg_points"}

\* A worker that goes on to the model operations without the lock.
segment_enter_unlocked(t) ==
    /\ t \in pool
    /\ t.kind \in LockTasks
    /\ t.id \notin in_cs
    /\ lock' = TRUE
    /\ in_cs' = in_cs \cup {t.id}
    /\ emits' = << >>
    /\ exc' = FALSE
    /\ Intent("other", "-")
    /\ UNCHANGED << next_id, issued, generations, pool, mailbox, delivered, seg_service,
                    state, inst, step, req_id, target_metadata, target_status,
                    bg_seg_req, bg_poly_req, cached_mask_sam,
                    cached_mask_binary, timer, current_metadata, dirty, image,
                    points, req_map, sent, saved, view, editor_sync, aliased,
                    edited >>

\* SegmentationService.segment_image / segment_points on a worker thread:
\* "with self._lock:" is entered when the lock is free.
segment_enter(t) ==
    /\ t \in pool
    /\ t.kind \in LockTasks
    /\ t.id \notin in_cs
    /\ ~lock
    /\ lock' = TRUE
    /\ in_cs' = in_cs \cup {t.id}
    /\ emits' = << >>
    /\ exc' = FALSE
    /\ Intent("other", "-")
    /\ UNCHANGED << next_id, issued, generations, pool, mailbox, delivered, seg_service,
                    state, inst, step, req_id, target_metadata, target_status,
                    bg_seg_req, bg_poly_req, cached_mask_sam,
                    cached_mask_binary, timer, current_metadata, dirty, image,
                    points, req_map, sent, saved, view, editor_sync, aliased,
                    edited >>

\* The end of the with-block: the lock is released when the body returns
\* and when it raises. Tasks of other kinds never held it.
Release(t, ok) ==
    IF t.id \in in_cs
    THEN lock' = FALSE /\ in_cs' = in_cs \ {t.id}
    ELSE UNCHANGED << lock, in_cs >>

\* run without the except clause: the error of a task that raises goes up
\* into the pool, which ends with everything it had.
run_uncaught(t, ok) ==
    /\ t \in pool
    /\ t.kind \in LockTasks => t.id \in in_cs
    /\ Release(t, ok)
    /\ pool' = IF ok THEN pool \ {t} ELSE {}
    /\ mailbox' = IF ok THEN mailbox \cup {Outcome(t, ok)} ELSE mailbox
    /\ aliased' = aliased \ {t.id}
    /\ edited' = edited \ {t.id}
    /\ emits' = << >>
    /\ exc' = FALSE
    /\ Intent("other", "-")
    /\ UNCHANGED << next_id, issued, generations, delivered, seg_service, state, inst,
                    step, req_id, target_metadata, target_status, bg_seg_req,
                    bg_poly_req, cached_mask_sam,
                    cached_mask_binary, timer, current_metadata, dirty, image,
                    points, req_map, sent, saved, view, editor_sync >>

\* run with an except clause that lets the error go: a task that raises
\* ends without a signal.
run_lost(t, ok) ==
    /\ t \in pool
    /\ t.kind \in LockTasks => t.id \in in_cs
    /\ Release(t, ok)
    /\ pool' = pool \ {t}
    /\ mailbox' = IF ok THEN mailbox \cup {Outcome(t, ok)} ELSE mailbox
    /\ aliased' = aliased \ {t.id}
    /\ edited' = edited \ {t.id}
    /\ emits' = << >>
    /\ exc' = FALSE
    /\ Intent("other", "-")
    /\ UNCHANGED << next_id, issued, generations, delivered, seg_service, state, inst,
                    step, req_id, target_metadata, target_status, bg_seg_req,
                    bg_poly_req, cached_mask_sam,
                    cached_mask_binary, timer, current_metadata, dirty, image,
                    points, req_map, sent, saved, view, editor_sync >>

\* run with the slots called where the signal is emitted: the handlers of
\* the Outcome run on the worker thread, at the end of the task.
run_direct(t, ok) ==
    /\ t \in pool
    /\ t.kind \in LockTasks => t.id \in in_cs
    /\ Release(t, ok)
    /\ LET m  == Outcome(t, ok)
           C0 == [Cur EXCEPT !.pool = @ \ {t}, !.aliased = @ \ {t.id},
                             !.edited = @ \ {t.id}]
           R1 == IF ok
                 THEN Controller_on_task_result(C0, m.request, t, "good", "ok")
                 ELSE Controller_on_task_error(C0, m.request)
           R2 == IF ok
                 THEN Explorer_on_task_result(R1, m.request, "good", "ok")
                 ELSE Explorer_on_task_error(R1, m.request)
       IN  ~R2.blocked /\ Set(R2)
    /\ Intent("other", "-")
    /\ UNCHANGED << mailbox, delivered, seg_service, sent, saved >>

\* Scheduler._CallableRunnable.run on a worker thread: the task returns
\* (ok) or raises, and _done emits task_result or task_error, which Qt
\* queues for the thread of the receivers.
run(t, ok) ==
    /\ t \in pool
    /\ t.kind \in LockTasks => t.id \in in_cs
    /\ Release(t, ok)
    /\ pool' = pool \ {t}
    /\ mailbox' = mailbox \cup {Outcome(t, ok)}
    /\ aliased' = aliased \ {t.id}
    /\ edited' = edited \ {t.id}
    /\ emits' = << >>
    /\ exc' = FALSE
    /\ Intent("other", "-")
    /\ UNCHANGED << next_id, issued, generations, delivered, seg_service, state, inst,
                    step, req_id, target_metadata, target_status, bg_seg_req,
                    bg_poly_req, cached_mask_sam,
                    cached_mask_binary, timer, current_metadata, dirty, image,
                    points, req_map, sent, saved, view, editor_sync >>

\* Point content as the server holds it.
Content(pos) == IF pos THEN "points" ELSE "empty"

\* The queued signal reaches the slots connected to it: the Controller's and
\* the ExplorerController's, on the GUI thread. payload is what the result
\* object turns out to hold when the handler reads it, lo what the file
\* system gives if the handler loads an image.
deliver(m, payload, lo) ==
    /\ m \in mailbox
    /\ LET R1 == IF m.ok
                 THEN Controller_on_task_result(Cur, m.request, m.t, payload, lo)
                 ELSE Controller_on_task_error(Cur, m.request)
           R2 == IF m.ok
                 THEN Explorer_on_task_result(R1, m.request, payload, lo)
                 ELSE Explorer_on_task_error(R1, m.request)
       IN  ~R2.blocked /\ Set(R2)
    /\ mailbox' = mailbox \ {m}
    /\ delivered' = delivered (+) SetToBag({m.t.n})
    /\ last' = [op |-> IF m.ok THEN "task_result" ELSE "task_error",
                arg |-> m.t.kind,
                hit |-> state \in {"Switching", "Submitting"} /\ m.t.id = req_id]
    /\ saved' = IF ~(m.ok /\ state \in {"Switching", "Submitting"} /\ m.t.id = req_id)
                THEN saved
                ELSE IF state = "Switching" /\ step = "LOAD"
                THEN IF payload = "good"
                     THEN Content(StoredPoints(target_metadata))
                     ELSE "unknown"
                ELSE IF m.t.kind \in {"save", "submit"}
                THEN Content(m.t.pos)
                ELSE saved
    /\ UNCHANGED << seg_service, sent, lock, in_cs, tree, auto >>

\* The result object is read only by the Load sub-step, and an image is
\* loaded only when the Save sub-step is left: one value stands for the
\* rest where the handler looks at neither.
\* The view reads a list response only if it is the one it waits for, and
\* selects an image from it only while it searches.
Awaited(m) ==
    /\ m.ok /\ m.t.kind = "list" /\ m.t.id \in DOMAIN req_map
    /\ req_map[m.t.id].kind = view.current_level
    /\ req_map[m.t.id].seq = view.req_sequence

PayloadsFor(m) ==
    IF Awaited(m) THEN ListResponses
    ELSE IF m.ok /\ state = "Switching" /\ step = "LOAD" THEN Payloads
    ELSE {"good"}

LoadOutcomesFor(m) ==
    IF Awaited(m)
    THEN IF view.is_searching /\ view.current_level = "image"
         THEN LoadOutcomes ELSE {"ok"}
    ELSE IF m.ok /\ state = "Switching" /\ step = "SAVE" THEN LoadOutcomes
    ELSE {"ok"}

Deliver ==
    \E m \in mailbox :
        \E payload \in PayloadsFor(m), lo \in LoadOutcomesFor(m) : deliver(m, payload, lo)

Run == \E t \in pool, ok \in BOOLEAN : run(t, ok)

Enter == \E t \in pool : segment_enter(t)

\* The program without the point editor: the workflow intents, polygon and
\* pipeline edits, the resource browser's downloads, workers and delivery.
Next ==
    \/ \E M \in Items, lo \in LoadOutcomes : on_image_selected(M, lo)
    \/ on_submit_current
    \/ on_abolish_current
    \/ on_action_generate_polygons
    \/ on_update_pipeline
    \/ on_update_polygons
    \/ download_thumbnail
    \/ Enter
    \/ Run
    \/ Deliver

Spec == Init /\ [][Next]_vars

\* The same with point edits and the debounce timer.
EditNext ==
    \/ Next
    \/ \E pos \in BOOLEAN : on_update_points(pos)
    \/ on_debounce_timeout

EditSpec == Init /\ [][EditNext]_vars

\* Every started task finishes (the pool runs it) and every queued signal is
\* delivered (the GUI event loop runs); intents are under no obligation.
Fairness ==
    /\ WF_vars(Enter)
    /\ WF_vars(Run)
    /\ WF_vars(Deliver)

FairSpec == Spec /\ Fairness

\* The Scheduler under two of its callers: the workflow states a select of
\* item "X" creates, and the resource browser.
SchedNext ==
    \/ \E lo \in LoadOutcomes : on_image_selected("X", lo)
    \/ download_thumbnail
    \/ Enter
    \/ Run
    \/ Deliver

SchedFairSpec == Init /\ [][SchedNext]_vars /\ Fairness

\* The annotation editor on one item: selects of "X", point edits, the
\* debounce timer, pipeline changes, workers and delivery. The timer, once
\* started and not restarted, expires (QTimer, single shot).
DebounceNext ==
    \/ \E lo \in {"ok", "missing"} : on_image_selected("X", lo)
    \/ \E pos \in BOOLEAN : on_update_points(pos)
    \/ on_debounce_timeout
    \/ on_update_pipeline
    \/ Enter
    \/ Run
    \/ Deliver

DebounceFairSpec ==
    Init /\ [][DebounceNext]_vars /\ WF_vars(on_debounce_timeout)

\* The resource browser: the view's navigation, filters and auto search,
\* the selections it makes, a submit of the current item, workers and
\* delivery.
ExplorerNext ==
    \/ Explorer_start
    \/ \E M \in Items, lo \in LoadOutcomes : on_item_double_clicked(M, lo)
    \/ on_back
    \/ on_query_status_changed
    \/ on_auto_mode_toggled
    \/ on_submit_current
    \/ Enter
    \/ Run
    \/ Deliver

ExplorerSpec == Init /\ [][ExplorerNext]_vars

\* The Scheduler under arbitrary callers next to one of the program's, the
\* resource browser's download.
TokenNext ==
    \/ \E given \in BOOLEAN, g \in Generations : Scheduler_submit_call(given, g)
    \/ download_thumbnail
    \/ Run
    \/ Deliver

TokenSpec == Init /\ [][TokenNext]_vars

\* Everything but the server's hierarchy and the search of the Explorer.
program == << next_id, issued, generations, pool, mailbox, delivered,
              seg_service, state, inst, step, req_id, target_metadata,
              target_status, bg_seg_req, bg_poly_req, cached_mask_sam,
              cached_mask_binary, timer, current_metadata, dirty, image,
              points, req_map, emits, exc, sent, saved, view, editor_sync,
              aliased, edited, lock, in_cs >>

Browse(op, arg) ==
    /\ last' = [op |-> op, arg |-> arg, hit |-> FALSE]
    /\ UNCHANGED << tree, program >>

\* The user checks or unchecks the auto-load action of the toolbar (the
\* signal fires when the checked state changes).
search_toggle_auto(checked) ==
    /\ checked # auto.auto_mode
    /\ checked => auto.searches < MaxSearches
    /\ auto' = Auto_on_auto_mode_toggled(auto, checked)
    /\ Browse("auto", IF checked THEN "on" ELSE "off")

\* The user opens an item of the list shown, while no search runs.
search_double_click(target) ==
    /\ ~auto.is_searching
    /\ auto.request = NoRequest
    /\ auto.current_level \in {"project", "case"}
    /\ \E k \in DOMAIN ProjectService_list(tree, auto.current_level,
                                            auto.current_params) :
          ProjectService_list(tree, auto.current_level,
                              auto.current_params)[k] = target
    /\ auto' = Auto_on_item_double_clicked(auto, target)
    /\ Browse("open", "-")

\* The user goes back one level, while no search runs.
search_back ==
    /\ ~auto.is_searching
    /\ auto.history_stack # << >>
    /\ auto' = Auto_on_back(auto)
    /\ Browse("back", "-")

\* The fetch task of the request the view waits for ends and its Outcome
\* reaches the view: a list with code 200 ("ok"), a response with another
\* code ("code"), or a failure of the task ("fail").
search_response(kind) ==
    /\ auto.request # NoRequest
    /\ LET req == auto.request
           A0  == [auto EXCEPT !.request = NoRequest]
       IN  auto' = IF kind = "ok"
                   THEN Auto_on_data_loaded(A0, req.level, 200,
                            ProjectService_list(tree, req.level, req.params))
                   ELSE IF kind = "code"
                   THEN Auto_on_data_loaded(A0, req.level, 500, << >>)
                   ELSE Auto_on_data_error(A0)
    /\ Browse("response", kind)

Respond == \E kind \in {"ok", "code", "fail"} : search_response(kind)

\* The auto search of the resource browser over every hierarchy: the user
\* navigates and switches the auto mode, every list fetch is answered.
SearchNext ==
    \/ \E checked \in BOOLEAN : search_toggle_auto(checked)
    \/ \E target \in Entities : search_double_click(target)
    \/ search_back
    \/ Respond

SearchSpec == SearchInit /\ [][SearchNext]_vars /\ WF_vars(Respond)

TypeOK ==
    /\ state \in {"Annotating", "Switching", "Submitting"}
    /\ step \in {"NONE", "INIT", "SAVE", "LOAD", "SEGMENT"}
    /\ \A t \in pool : t.n \in DOMAIN issued

\* ================================================================ claims
Workflow == {"Switching", "Submitting"}

\* Tasks submitted whose Outcome has not reached the slots yet.
Live == pool \cup {m.t : m \in mailbox}

\* Tasks submitted in the step.
NewTasks == pool' \ pool

\* The step delivers signal m.
Delivering(m) == m \in mailbox /\ m \notin mailbox'

\* ---------------------------------------------------------------- C1
\* C1: every task passed to submit has exactly one Outcome delivered to the
\* slots, eventually: one signal (task_result or task_error) for the task,
\* never two and never none, whatever else is pending or running and
\* whether the task returns or raises.
C1_ExactlyOneOutcome ==
    /\ \A n \in 1..(MaxId + 2) :
          (n \in DOMAIN issued) ~> (CopiesIn(n, delivered) = 1)
    /\ [](\A n \in DOMAIN issued : CopiesIn(n, delivered) <= 1)
    /\ [](\A n \in DOMAIN issued :
            Cardinality({t \in pool : t.n = n}) + Cardinality({m \in mailbox : m.t.n = n})
                + CopiesIn(n, delivered) = 1)

\* A task that raised has had its failure delivered while another task is
\* still pending or running.
C1_Witness ==
    /\ last.op = "task_error"
    /\ \E n \in DOMAIN issued : CopiesIn(n, delivered) = 1
    /\ Live # {}

\* ---------------------------------------------------------------- C2
\* C2: the request ids of the Tokens returned by submit are pairwise distinct
\* and strictly increasing in call order, whoever the callers are.
C2_IdsStrictlyIncreasing ==
    \A i, j \in DOMAIN issued : i < j => issued[i] < issued[j]

\* All three consumers have submitted: a workflow state (the Load and Segment
\* tasks of the current item), then the Controller (polygon extraction) and
\* the resource browser, whose tasks are both outstanding.
C2_Witness ==
    /\ current_metadata # NoItem
    /\ \E t \in Live : t.kind = "poly" /\ t.id = bg_poly_req
    /\ \E t \in Live : t.kind = "download"
    /\ Len(issued) >= 4

\* ---------------------------------------------------------------- C3
\* C3: a success Outcome delivered while Switching or Submitting is active,
\* with a request id other than the state's stored one, is ignored: the
\* sub-step does not advance, there is no transition, the state submits no
\* task, and Session (current item, dirty) is unchanged.
C3_MismatchedResultIgnored ==
    [][\A m \in mailbox :
          (Delivering(m) /\ m.ok /\ state \in Workflow /\ m.t.id # req_id)
          => /\ state' = state /\ step' = step /\ req_id' = req_id
             /\ inst' = inst /\ target_metadata' = target_metadata
             /\ {t \in NewTasks : t.owner # 0} = {}
             /\ current_metadata' = current_metadata
             /\ dirty' = dirty]_vars

\* ---------------------------------------------------------------- C4
\* C4: a failure Outcome delivered while Switching or Submitting is active,
\* with a request id other than the state's stored one, is ignored: the
\* state stays in its sub-step, there is no transition to Annotating, and
\* show_error is not fired for the workflow (it may be for a background
\* request of the Controller itself).
C4_MismatchedErrorIgnored ==
    [][\A m \in mailbox :
          (Delivering(m) /\ ~m.ok /\ state \in Workflow /\ m.t.id # req_id)
          => /\ state' = state /\ step' = step /\ req_id' = req_id
             /\ (m.t.id \notin {bg_seg_req, bg_poly_req}
                    => Count(emits', "show_error") = 0)]_vars

\* ---------------------------------------------------------------- C5
\* C5: when the task of the current sub-step of Switching, or the task of
\* Submitting, fails, the active state becomes Annotating and show_error is
\* fired exactly once.
C5_FailureEndsInAnnotating ==
    [][\A m \in mailbox :
          (Delivering(m) /\ ~m.ok /\ state \in Workflow /\ m.t.id = req_id)
          => /\ state' = "Annotating"
             /\ Count(emits', "show_error") = 1]_vars

\* The Segment task of a Switching state has failed while a polygon
\* extraction of the Controller is outstanding.
C5_Witness ==
    /\ last.op = "task_error" /\ last.hit /\ last.arg = "segment"
    /\ state = "Annotating"
    /\ Count(emits, "show_error") = 1
    /\ bg_poly_req # 0

\* ---------------------------------------------------------------- C6
\* C6: with every task finishing and every Outcome delivered, every entry
\* into Switching or Submitting is followed by Annotating being active again.
C6_WorkflowReturnsToAnnotating ==
    (state \in Workflow) ~> (state = "Annotating")

\* ---------------------------------------------------------------- C7
\* C7: when the Save task of a Switching state fails, the machine is back in
\* Annotating with the current item and dirty = TRUE as they were, nothing
\* is submitted, and the Workspace holds the image it held when the item was
\* selected; the state object is gone, and no later state object is taken
\* for it, so no Load or Segment task is ever submitted for that selection.
C7_SaveFailureKeepsItem ==
    /\ [][\A m \in mailbox :
            (Delivering(m) /\ ~m.ok /\ state = "Switching" /\ step = "SAVE"
                /\ m.t.id = req_id)
            => /\ state' = "Annotating"
               /\ current_metadata' = current_metadata
               /\ current_metadata # NoItem
               /\ dirty /\ dirty'
               /\ image' = image
               /\ NewTasks = {}
               /\ \A t \in Live' : t.owner = inst => t.kind = "save"]_vars
    /\ [][(state' = "Switching" /\ step' = "SAVE")
            => /\ image' = image
               /\ current_metadata' = current_metadata
               /\ \A t \in NewTasks : t.owner # 0 => t.kind = "save"]_vars
    /\ [][(inst' # inst /\ inst' # 0)
            => /\ inst' > inst
               /\ \A t \in Live : t.owner < inst']_vars

\* The Save task of X has failed: Annotating, X current, dirty, X's image.
C7_Witness ==
    /\ last.op = "task_error" /\ last.hit /\ last.arg = "save"
    /\ state = "Annotating"
    /\ current_metadata = "X" /\ image = "X" /\ dirty

\* ---------------------------------------------------------------- C8
\* C8: a Switching state submits in the order Save, Load, Segment: the Load
\* fetch only on entry (no Save) or when the Save task's success Outcome is
\* accepted, the Segment task only when the Load task's success Outcome is
\* accepted, and it never has two of its tasks outstanding.
C8_SubStepsSequential ==
    /\ [](\A t1, t2 \in Live : (t1.owner # 0 /\ t1.owner = t2.owner) => t1 = t2)
    /\ [][\A t \in NewTasks :
            /\ t.kind = "save"
                 => state = "Annotating" /\ state' = "Switching"
            /\ t.kind = "load"
                 => \/ state = "Annotating" /\ state' = "Switching"
                    \/ \E m \in mailbox :
                          /\ Delivering(m) /\ m.ok /\ m.t.kind = "save"
                          /\ state = "Switching" /\ step = "SAVE"
                          /\ m.t.id = req_id /\ m.t.owner = t.owner
            /\ t.kind = "segment"
                 => \E m \in mailbox :
                          /\ Delivering(m) /\ m.ok /\ m.t.kind = "load"
                          /\ state = "Switching" /\ step = "LOAD"
                          /\ m.t.id = req_id /\ m.t.owner = t.owner]_vars

\* A Switching state that was the only submitter went through Save and Load
\* and has its Segment task outstanding.
C8_Witness ==
    /\ state = "Switching" /\ step = "SEGMENT"
    /\ last.op = "task_result" /\ last.hit /\ last.arg = "load"
    /\ req_id = inst + 2
    /\ \E t \in pool : t.kind = "segment" /\ t.owner = inst /\ t.id = req_id

\* ---------------------------------------------------------------- C9
\* C9: a Switching state entered with dirty = FALSE, or with no current
\* item, submits no Save task: what it submits on entry is the Load fetch
\* for the target, and nothing else. (A Save task is only ever submitted on
\* entry with dirty = TRUE and a current item.)
C9_NoSaveWhenClean ==
    /\ [][(state = "Annotating" /\ state' = "Switching"
              /\ ~(dirty /\ current_metadata # NoItem))
            => /\ Cardinality(NewTasks) <= 1
               /\ \A t \in NewTasks :
                     /\ t.kind = "load" /\ t.item = target_metadata'
                     /\ t.owner = inst' /\ t.id = req_id'
               /\ step' = "LOAD"]_vars
    /\ [][\A t \in NewTasks :
            t.kind = "save"
            => /\ state = "Annotating" /\ state' = "Switching"
               /\ dirty /\ current_metadata # NoItem]_vars

\* Y was selected with X current and clean: the Load fetch for Y is
\* the state's outstanding task; an edit made since has set dirty.
C9_Witness ==
    /\ state = "Switching" /\ step = "LOAD"
    /\ current_metadata = "X" /\ target_metadata = "Y"
    /\ dirty
    /\ \E t \in pool : t.kind = "load" /\ t.item = "Y" /\ t.id = req_id
    /\ \A t \in Live : t.kind # "save"

\* --------------------------------------------------------------- C10
\* C10: a select intent with metadata M arriving in Annotating leaves the
\* machine in Switching with target M, whatever dirty and the current item.
C10_SelectYieldsSwitching ==
    [][(last'.op = "select" /\ state = "Annotating")
          => /\ state' = "Switching"
             /\ target_metadata' = last'.arg]_vars

\* The current item was selected again while dirty.
C10_Witness ==
    /\ last.op = "select"
    /\ state = "Switching" /\ target_metadata = last.arg
    /\ current_metadata = last.arg /\ dirty
    /\ inst = req_id

\* --------------------------------------------------------------- C11
\* C11: a submit or abolish intent arriving in Annotating with no current
\* item changes nothing: the state stays Annotating, no task is submitted,
\* Session and Workspace are as they were.
C11_SubmitWithoutItemIsNoOp ==
    [][(last'.op \in {"submit", "abolish"} /\ state = "Annotating"
            /\ current_metadata = NoItem)
          => /\ state' = "Annotating"
             /\ pool' = pool /\ next_id' = next_id /\ issued' = issued
             /\ current_metadata' = current_metadata /\ dirty' = dirty
             /\ image' = image /\ points' = points
             /\ inst' = inst /\ req_id' = req_id]_vars

\* An abolish arrived with no current item, after an edit had set dirty.
C11_Witness ==
    /\ last.op = "abolish"
    /\ state = "Annotating" /\ current_metadata = NoItem
    /\ dirty

C13_SubmitSuccess ==
    [][\A m \in mailbox :
          (Delivering(m) /\ m.ok /\ state = "Submitting" /\ m.t.id = req_id)
          => /\ Count(emits', "entity_status_updated") = 1
             /\ \E i \in DOMAIN emits' :
                   emits'[i] = <<"entity_status_updated", current_metadata,
                                 target_status>>
             /\ dirty' = FALSE
             /\ current_metadata' = current_metadata
             /\ current_metadata # NoItem
             /\ state' = "Annotating"]_vars

\* The submit of X has succeeded: X is current and clean, and what was
\* pushed (a positive point) is what the server last received.
C13_Witness ==
    /\ last.op = "task_result" /\ last.hit /\ last.arg = "submit"
    /\ state = "Annotating" /\ current_metadata = "X" /\ ~dirty
    /\ \E i \in DOMAIN emits :
          emits[i] = <<"entity_status_updated", "X", "Submitted">>
    /\ saved = "points"

\* --------------------------------------------------------------- C14
\* C14: whenever a Switching state whose Load Outcome was accepted returns
\* to Annotating without a failure (through the Segment success, or through
\* the skip taken with no segmentation service or no image), dirty is FALSE
\* when Annotating is entered, whatever dirty was when Switching started.
C14_CompletedSwitchingIsClean ==
    [][(/\ state = "Switching" /\ step \in {"LOAD", "SEGMENT"}
        /\ last'.op = "task_result" /\ last'.hit
        /\ state' = "Annotating"
        /\ Count(emits', "show_error") = 0)
          => dirty' = FALSE]_vars

\* --------------------------------------------------------------- C15
\* C15: when the delivery of an Outcome sends a workflow state back to
\* Annotating with an error shown (the shared error path or the
\* unexpected-exception path), dirty is what it was before the delivery.
C15_FailureKeepsDirty ==
    [][\A m \in mailbox :
          (/\ Delivering(m) /\ state \in Workflow
           /\ state' = "Annotating"
           /\ Count(emits', "show_error") >= 1)
          => dirty' = dirty]_vars

\* --------------------------------------------------------------- C16
\* C16: whenever Annotating is active, the image the Workspace holds is the
\* image of the current item (none if that item has no local image file),
\* and no image is held when there is no current item.
C16_AnnotatingImageIsCurrent ==
    state = "Annotating" => (image = current_metadata \/ image = NoItem)

\* --------------------------------------------------------------- C17
\* C17: with a current item, if the workspace's annotation content differs
\* from the content last saved to or loaded from the server for that item,
\* then dirty is TRUE. Stated for the points, in Annotating, with an image
\* held by the Workspace.
C17_UnsavedContentIsDirty ==
    (/\ state = "Annotating" /\ current_metadata # NoItem /\ image # NoItem
     /\ saved # "unknown" /\ Content(points) # saved)
        => dirty

\* --------------------------------------------------------------- C18
\* The error observer was fired with the internal-error message.
InternalError(seq) ==
    \E i \in DOMAIN seq : seq[i] = <<"show_error", "internal", "-">>

C19_OneSegmentationPerBurst ==
    /\ [][last'.op = "points"
            => /\ dirty' /\ timer'
               /\ NewTasks = {} /\ next_id' = next_id]_vars
    /\ [][\A t \in NewTasks :
            t.kind = "bgseg_points"
            => /\ last'.op = "timeout"
               /\ timer /\ ~timer'
               /\ Cardinality(NewTasks) = 1
               /\ t.pos = points /\ t.item = image
               /\ t.id = bg_seg_req']_vars
    /\ [][(last'.op = "timeout" /\ seg_service /\ state = "Annotating"
              /\ image # NoItem)
            => /\ \E t \in NewTasks : t.kind = "bgseg_points"
               /\ ~timer']_vars
    /\ (timer /\ CanSubmit) ~> (~timer \/ ~CanSubmit)

\* X was loaded with its stored positive point and left clean; the points
\* were edited away, the timer has expired and the one segmentation task,
\* holding the edited points, is outstanding.
C19_Witness ==
    /\ last.op = "timeout"
    /\ state = "Annotating" /\ current_metadata = "X" /\ image = "X"
    /\ saved = "points" /\ ~points /\ dirty /\ ~timer
    /\ Cardinality({t \in Live : t.kind = "bgseg_points"}) = 1
    /\ \E t \in pool : t.kind = "bgseg_points" /\ ~t.pos /\ t.id = bg_seg_req

\* --------------------------------------------------------------- C20
\* C20: a pipeline change made while the Workspace holds an image and a raw
\* model mask is cached submits one pipeline segmentation in the same step,
\* whether the debounce timer is running or not, and leaves the timer as it
\* was.
C20_PipelineChangeIsImmediate ==
    [][(last'.op = "pipeline" /\ image # NoItem /\ cached_mask_sam)
          => /\ Cardinality(NewTasks) = 1
             /\ \A t \in NewTasks :
                   /\ t.kind = "bgseg_pipeline" /\ t.item = image
                   /\ t.id = bg_seg_req'
             /\ timer' = timer
             /\ dirty']_vars

\* The pipeline was changed while the timer of a point edit was running:
\* the pipeline segmentation is outstanding and the timer still runs.
C20_Witness ==
    /\ last.op = "pipeline"
    /\ timer /\ state = "Annotating" /\ cached_mask_sam
    /\ \E t \in pool : t.kind = "bgseg_pipeline" /\ t.id = bg_seg_req

\* --------------------------------------------------------------- C21
\* C21: the Outcome, success or failure, of a background segmentation
\* request that is not the latest one issued (its id is not _bg_seg_req) is
\* dropped: the cached masks stay, segment_mask and generate_polygon are not
\* emitted, the Workspace is untouched; the success Outcome of the latest
\* request is applied, in whichever order the two are delivered.
C21_SupersededSegmentationDropped ==
    [][\A m \in mailbox :
          (Delivering(m) /\ m.t.kind \in {"bgseg_points", "bgseg_pipeline"})
          => /\ m.t.id # bg_seg_req
                  => /\ cached_mask_sam' = cached_mask_sam
                     /\ cached_mask_binary' = cached_mask_binary
                     /\ Count(emits', "segment_mask") = 0
                     /\ Count(emits', "generate_polygon") = 0
                     /\ image' = image /\ points' = points
                     /\ bg_seg_req' = bg_seg_req
             /\ (m.t.id = bg_seg_req /\ m.ok)
                  => /\ cached_mask_binary' = ResultMaskBinary(m.t)
                     /\ Count(emits', "segment_mask") = 1
                     /\ Count(emits', "generate_polygon") = 1]_vars

\* Request A (points, after the timer) was followed by request B (pipeline
\* change) before A's Outcome came; A's Outcome has now been delivered and
\* dropped, B is still outstanding.
C21_Witness ==
    /\ last.op \in {"task_result", "task_error"} /\ last.arg = "bgseg_points"
    /\ state = "Annotating"
    /\ \A t \in Live : t.kind # "bgseg_points"
    /\ \E t \in Live : t.kind = "bgseg_pipeline" /\ t.id = bg_seg_req
    /\ emits = << >>

\* The signals ExplorerController sends to the view.
ViewSignals == {"thumbnail_ready", "thumbnail_error",
                "file_list_loaded", "file_list_error"}

\* The entries of a signal sequence that are view signals.
ViewEmits(seq) == {i \in DOMAIN seq : seq[i][1] \in ViewSignals}

\* The signal e carries the kind and the context c recorded at submission.
Carries(e, c) ==
    IF c.kind = "download"
    THEN e[1] \in {"thumbnail_ready", "thumbnail_error"} /\ e[2] = c.image_id
    ELSE /\ e[1] \in {"file_list_loaded", "file_list_error"}
         /\ e[2] = c.kind /\ e[3] = ToString(c.seq)

\* The requests of the resource browser whose Outcome is still to come.
BrowserLive == {t \in Live : t.kind \in {"list", "download"}}

\* C22: ExplorerController accepts an Outcome if and only if its request id
\* is a key of the pending-request map. On acceptance the key is removed and
\* exactly one view signal is emitted, carrying the kind and the context
\* recorded at submission (level and parameters of a list request, image id
\* of a download). An Outcome whose id is absent emits no view signal and
\* leaves every entry of the map as it is. Once every request of the browser
\* has had its Outcome delivered the map is empty.
C22_MapDecidesAcceptance ==
    /\ [](BrowserLive = {} => DOMAIN req_map = {})
    /\ [][\A m \in mailbox :
             Delivering(m)
             => IF m.t.id \in DOMAIN req_map
                THEN /\ m.t.id \notin DOMAIN req_map'
                     /\ \A k \in DOMAIN req_map \ {m.t.id} :
                            k \in DOMAIN req_map' /\ req_map'[k] = req_map[k]
                     /\ Cardinality(ViewEmits(emits')) = 1
                     /\ \A i \in ViewEmits(emits') :
                            Carries(emits'[i], req_map[m.t.id])
                ELSE /\ ViewEmits(emits') = {}
                     /\ \A k \in DOMAIN req_map :
                            k \in DOMAIN req_map' /\ req_map'[k] = req_map[k]]_vars

\* C23: every list request carries a sequence number greater than that of
\* every earlier one (the view's counter never decreases, no recorded
\* request is ahead of it, and a new request takes a value above the old
\* counter); a successful list response whose echoed number is not the
\* latest issued, or whose level is not the current one, changes nothing in
\* the view and starts no request; the response that echoes the latest
\* number at the current level is the one shown (outside a search) and ends
\* the progress indication unless it made the view ask again.
C23_OnlyLatestResponseShown ==
    /\ [](\A k \in DOMAIN req_map : req_map[k].seq <= view.req_sequence)
    /\ [][/\ view'.req_sequence >= view.req_sequence
          /\ \A k \in DOMAIN req_map' \ DOMAIN req_map :
                 req_map'[k].kind # "download"
                 => req_map'[k].seq > view.req_sequence
          /\ \A m \in mailbox :
                 (Delivering(m) /\ m.ok /\ m.t.kind = "list"
                  /\ m.t.id \in DOMAIN req_map)
                 => LET c == req_map[m.t.id]
                    IN  IF c.seq = view.req_sequence /\ c.kind = view.current_level
                        THEN /\ view'.req_sequence = view.req_sequence
                                => ~view'.progress
                             /\ (~view.is_searching
                                 /\ view'.req_sequence = view.req_sequence)
                                => view'.list.seq = c.seq
                        ELSE /\ view' = view
                             /\ DOMAIN req_map' = DOMAIN req_map \ {m.t.id}
                             /\ pool' = pool]_vars

\* Two requests for the list of projects were issued back-to-back; the
\* response to the first has arrived and was dropped, the second is awaited.
C23_Witness ==
    /\ last.op = "task_result" /\ last.arg = "list"
    /\ view.current_level = "project" /\ ~view.is_searching
    /\ view.req_sequence = 2
    /\ view.progress /\ view.list.what = "blank"
    /\ \E t \in Live : /\ t.kind = "list" /\ t.id \in DOMAIN req_map
                        /\ req_map[t.id].seq = 2
    /\ Cardinality(BrowserLive) = 1

\* C24: a failed list fetch of a superseded request (its sequence number is
\* not the latest issued) is not honoured by the view: the search in
\* progress goes on, the progress indication stays and the list is as it was.
C24_SupersededFailureIgnored ==
    [][\A m \in mailbox :
          (Delivering(m) /\ ~m.ok /\ m.t.kind = "list"
           /\ m.t.id \in DOMAIN req_map
           /\ req_map[m.t.id].seq # view.req_sequence)
          => /\ view'.is_searching = view.is_searching
             /\ view'.progress = view.progress
             /\ view'.list = view.list]_vars

\* C25: the inputs of a task are fixed at submission time: what the
\* coordinating context does to the Workspace or the Session after submit
\* has returned (new points, an in-place edit of the pipeline, a new image,
\* another current item) does not change what a pending or running task
\* computes. Every task that finishes computes with the pipeline as it was
\* when the task was submitted.
C25_InputsFixedAtSubmission ==
    [][\A t \in pool \ pool' : t.id \notin edited]_vars

\* C26: at most one worker at a time executes a model operation of the
\* segmentation capability: the critical sections of concurrently running
\* segment_image / segment_points tasks never overlap, the lock is held
\* exactly while a task is inside, and a task that leaves the critical
\* section, by returning or by raising, leaves the lock free for the next.
C26_ModelOperationsSerialized ==
    /\ [](Cardinality(in_cs) <= 1)
    /\ [](lock <=> in_cs # {})
    /\ [][\A t \in pool \ pool' :
             t.id \in in_cs => ~lock' /\ t.id \notin in_cs']_vars

\* A segmentation task raised inside the critical section; a later one is
\* inside now while a third waits for the lock.
C26_Witness ==
    \E m \in mailbox, t \in pool, u \in pool :
        /\ ~m.ok /\ m.t.kind \in LockTasks
        /\ t.id \in in_cs /\ t.id > m.t.id
        /\ u.kind \in LockTasks /\ u.id \notin in_cs

\* A failure Outcome is waiting to be delivered.
FailurePending == \E m \in mailbox : ~m.ok

\* C27: a task that raises is reported as one failure Outcome and does not
\* disturb the Scheduler. The step in which a task ends, returning or
\* raising, queues exactly one Outcome for it and leaves every other task,
\* every other Outcome, the id counter and the Tokens alone; every task that
\* is pending while a failure is around still has its own Outcome delivered,
\* once; and a submit after a failure returns a Token with an id never used.
C27_FailureDoesNotDisturb ==
    /\ [][\A t \in pool \ pool' :
             /\ pool' = pool \ {t}
             /\ \E ok \in BOOLEAN : mailbox' = mailbox \cup {Outcome(t, ok)}
             /\ Cardinality(mailbox') = Cardinality(mailbox) + 1
             /\ next_id' = next_id /\ issued' = issued
             /\ delivered' = delivered]_vars
    /\ \A n \in 1..(MaxId + 2) :
          (FailurePending /\ \E t \in Live : t.n = n)
              ~> (CopiesIn(n, delivered) = 1)
    /\ [][FailurePending
             => \A t \in NewTasks :
                   /\ t.id >= next_id /\ t.id < next_id'
                   /\ \A i \in DOMAIN issued : issued[i] # t.id]_vars

\* A task has raised and its failure is waiting; a task submitted before it
\* has had its Outcome delivered, and the select just taken has submitted a
\* new task under a new id.
C27_Witness ==
    /\ last.op = "select" /\ emits # << >>
    /\ \E m \in mailbox, t \in pool :
          /\ ~m.ok
          /\ \E a \in 1..(m.t.n - 1) : CopiesIn(a, delivered) = 1
          /\ t.n = Len(issued) /\ t.n > m.t.n /\ t.id = next_id - 1

\* C28: the Outcome delivered for a task carries exactly the request id and
\* the generation of the Token submit returned for it; the generation of the
\* Token is the value the caller passed, 0 when the caller passed none, and
\* the Scheduler never alters it while the task is pending, running or
\* waiting to be delivered.
C28_OutcomeCarriesToken ==
    /\ [](\A m \in mailbox :
            m.request = issued[m.t.n] /\ m.generation = generations[m.t.n])
    /\ [](\A t \in pool :
            t.id = issued[t.n] /\ t.generation = generations[t.n])
    /\ [][/\ \A i \in DOMAIN generations : generations'[i] = generations[i]
          /\ \A t \in NewTasks :
                IF last'.op = "submit_call"
                THEN IF last'.arg = "default"
                     THEN generations'[t.n] = 0
                     ELSE ToString(generations'[t.n]) = last'.arg
                ELSE generations'[t.n] = 0]_vars

\* Outcomes wait for delivery of a task submitted with the largest generation, of one
\* submitted without a generation and of the resource browser's download.
C28_Witness ==
    \E m1, m2, m3 \in mailbox :
        /\ m1.t.kind = "probe" /\ m1.generation = MaxGeneration
        /\ m2.t.kind = "probe" /\ m2.generation = 0
        /\ m3.t.kind = "download" /\ m3.generation = 0
        /\ m1.request # m2.request

\* ---------------------------------------------------------------- C29
\* The variables of the WorkspaceSession, the Workspace and the active
\* workflow state.
Coordinated == << state, inst, step, req_id, target_metadata, target_status,
                 current_metadata, dirty, image, points >>

\* A step of a worker thread: a task enters or leaves the model operations,
\* or ends.
WorkerStep == pool \ pool' # {} \/ in_cs' # in_cs

\* C29: Session, Workspace and the active workflow state are changed only by
\* the handlers of the GUI thread (intents, the debounce timeout, Outcome
\* handlers), one at a time: a step of a worker changes none of them and
\* runs no Outcome handler, a step hands at most one Outcome to the
\* handlers, and a step that does is no intent and no timeout.
C29_OnlyCoordinatingContextMutates ==
    [][ /\ WorkerStep =>
            /\ UNCHANGED Coordinated
            /\ mailbox \subseteq mailbox'
            /\ delivered' = delivered
        /\ Cardinality(mailbox \ mailbox') <= 1
        /\ (mailbox \ mailbox' # {}) <=>
               last'.op \in {"task_result", "task_error"}
        /\ (mailbox \ mailbox' # {}) => pool \subseteq pool'
      ]_vars

\* A worker has ended the task the Segment sub-step waits for, the Outcome is
\* queued, and the workflow state is as the handlers left it.
C29_Witness ==
    /\ state = "Switching" /\ step = "SEGMENT"
    /\ \E m \in mailbox : m.t.id = req_id /\ m.t.kind = "segment"
    /\ \A t \in pool : t.id # req_id

\* ---------------------------------------------------------------- C30
\* The step delivers the success Outcome the Load sub-step waits for, and the
\* result holds an annotation payload.
LoadAccepted ==
    /\ state = "Switching" /\ step = "LOAD"
    /\ \E m \in mailbox : Delivering(m) /\ m.ok /\ m.t.id = req_id
    /\ saved' # "unknown"

SegmentTasks(S) == {t \in S : t.kind = "segment"}

\* C30: when the Load Outcome is accepted the Workspace takes the loaded
\* annotation payload; without a segmentation service, or without an image
\* in the Workspace, Switching goes to Annotating and submits no Segment
\* task, otherwise it submits exactly one Segment task.
C30_SegmentOnlyWithServiceAndImage ==
    [][ LoadAccepted =>
          /\ points' = StoredPoints(target_metadata)
          /\ IF ~seg_service \/ image = NoItem
             THEN state' = "Annotating" /\ SegmentTasks(NewTasks) = {}
             ELSE /\ Cardinality(SegmentTasks(NewTasks)) = 1
                  /\ state' = "Switching" /\ step' = "SEGMENT"
      ]_vars

\* ---------------------------------------------------------------- C31
\* The tasks the active workflow state object submitted whose Outcome has
\* not reached the handlers.
Outstanding == {t \in Live : t.owner = inst}

\* C31: an active Switching or Submitting state has at most one task of its
\* own whose Outcome is not delivered yet, and the id it stores is the
\* request id of that task.
C31_OneOutstandingTaskPerState ==
    state \in Workflow =>
        /\ Cardinality(Outstanding) <= 1
        /\ \A t \in Outstanding : t.id = req_id

\* A Switching state waits for its third task, the Segment task; the Save
\* and the Load task it submitted before were delivered.
C31_Witness ==
    /\ state = "Switching" /\ step = "SEGMENT"
    /\ \E t \in Outstanding : t.kind = "segment" /\ t.id = req_id /\ t.id >= 3

\* ---------------------------------------------------------------- C32
\* The step delivers, to the Switching state that submitted it, the success
\* Outcome of the Load task it waits for.
OwnLoadSucceeds ==
    /\ state = "Switching" /\ step = "LOAD"
    /\ \E m \in mailbox :
          /\ Delivering(m) /\ m.ok
          /\ m.t.kind = "load" /\ m.t.id = req_id /\ m.t.owner = inst

\* C32: the current item of the Session changes only in the step in which a
\* Switching state accepts the success Outcome of its own Load task, and it
\* is then the target of that state; no other step changes it.
C32_CurrentItemSetByLoadOnly ==
    [][ /\ current_metadata' # current_metadata => OwnLoadSucceeds
        /\ OwnLoadSucceeds => current_metadata' = target_metadata
      ]_vars

\* The step just taken accepted a Load Outcome and made "Y" the current
\* item, after at least two other tasks had been submitted.
C32_Witness ==
    /\ last.op = "task_result" /\ last.arg = "load" /\ last.hit
    /\ current_metadata = "Y"
    /\ \E n \in DOMAIN issued : n >= 3

\* ---------------------------------------------------------------- C33
\* The step delivers the success Outcome of a task built by a Submitting
\* state.
SubmitSucceeds(m) == Delivering(m) /\ m.ok /\ m.t.kind = "submit"

\* The step delivers to a Switching state the success Outcome of the Save
\* task it waits for.
SaveAccepted ==
    /\ state = "Switching" /\ step = "SAVE"
    /\ \E m \in mailbox : Delivering(m) /\ m.ok /\ m.t.id = req_id

\* C33: workflow_finished fires exactly once for every Submitting task that
\* succeeds, with the status of that task (Submitted or Skipped), and in no
\* other step; the success of the Save sub-step fires entity_status_updated
\* with "Annotating" for the old item and no workflow_finished, clears dirty
\* and goes on to the Load sub-step (unless loading the image raises).
C33_FinishedOncePerSubmit ==
    [][ /\ \A m \in mailbox : SubmitSucceeds(m) =>
              /\ Count(emits', "workflow_finished") = 1
              /\ m.t.status \in {"Submitted", "Skipped"}
              /\ \E i \in DOMAIN emits' :
                    emits'[i] = <<"workflow_finished", m.t.status, "-">>
        /\ Count(emits', "workflow_finished") > 0 =>
              \E m \in mailbox : SubmitSucceeds(m)
        /\ SaveAccepted =>
              /\ Count(emits', "workflow_finished") = 0
              /\ \E i \in DOMAIN emits' :
                    emits'[i] = <<"entity_status_updated", current_metadata,
                                  "Annotating">>
              /\ dirty' = FALSE
              /\ InternalError(emits') \/ (state' = "Switching" /\ step' = "LOAD")
      ]_vars

\* ---------------------------------------------------------------- C34
\* The tasks that push annotation content to the server.
PushTasks == {"save", "submit"}

\* C34: a Save or Submitting task is sent under the identity of the item
\* whose image the Workspace holds when the content is exported (or of no
\* image at all), never with the image of another item in the Workspace.
C34_ContentPushedUnderItsOwnItem ==
    [][ \A t \in NewTasks :
           t.kind \in PushTasks => (image = t.item \/ image = NoItem)
      ]_vars

\* ---------------------------------------------------------------- C35
\* The tasks the Controller runs in the background of Annotating: the
\* segmentations and the polygon extraction.
BackgroundTasks == {"bgseg_points", "bgseg_pipeline", "poly"}

\* The step delivers the success Outcome of background task m.t, submitted
\* on the image of one item before the active Switching to another item was
\* started.
LateBackgroundResult(m) ==
    /\ Delivering(m) /\ m.ok /\ m.t.kind \in BackgroundTasks
    /\ state = "Switching" /\ m.t.id < inst
    /\ m.t.item # target_metadata

\* C35: the result of a background segmentation or polygon extraction
\* submitted on item X is not applied once a Switching to item Y has
\* started: its late Outcome changes neither the cached masks nor dirty and
\* publishes no polygons.
C35_LateBackgroundResultDropped ==
    [][ \A m \in mailbox :
           LateBackgroundResult(m) =>
              /\ cached_mask_sam' = cached_mask_sam
              /\ cached_mask_binary' = cached_mask_binary
              /\ dirty' = dirty
              /\ Count(emits', "generate_polygon") = 0
              /\ Count(emits', "segment_mask") = 0
      ]_vars

\* ---------------------------------------------------------------- C36
\* The three workflow intents, as the step records them.
WorkflowIntents == {"select", "submit", "abolish"}

\* C36: while Switching or Submitting is active a select, submit or abolish
\* intent causes no transition, submits no task and leaves the Session, the
\* sub-step, the target and the stored id as they are; a second select
\* during Switching neither retargets nor restarts the sequence.
C36_IntentsIgnoredInWorkflow ==
    [][ (state \in Workflow /\ last'.op \in WorkflowIntents) =>
          /\ state' = state /\ inst' = inst /\ step' = step
          /\ req_id' = req_id
          /\ target_metadata' = target_metadata
          /\ target_status' = target_status
          /\ current_metadata' = current_metadata /\ dirty' = dirty
          /\ image' = image /\ points' = points
          /\ pool' = pool /\ next_id' = next_id /\ issued' = issued
      ]_vars

\* A select of another item than the target was just made while Switching
\* waits for its Load task.
C36_Witness ==
    /\ state = "Switching" /\ step = "LOAD"
    /\ last.op = "select" /\ last.arg # target_metadata
    /\ \E t \in Live : t.id = req_id

\* ---------------------------------------------------------------- C37
\* The debounced trigger must stay quiet: a workflow state is active, the
\* Workspace holds no image, or there is no segmentation service.
TriggerSuppressed == state \in Workflow \/ image = NoItem \/ ~seg_service

\* C37: a debounce timeout that fires while a workflow state is active,
\* without an image or without a segmentation service submits nothing and
\* leaves the timer stopped; a points segmentation task is only ever
\* submitted by a timeout in Annotating with an image and a service.
C37_TriggerSuppressed ==
    [][ /\ (last'.op = "timeout" /\ TriggerSuppressed) =>
              /\ pool' = pool /\ next_id' = next_id /\ issued' = issued
              /\ bg_seg_req' = bg_seg_req
              /\ ~timer'
        /\ \A t \in NewTasks :
              t.kind = "bgseg_points" =>
                  last'.op = "timeout" /\ ~TriggerSuppressed
      ]_vars

\* The timeout just fired during a workflow state that waits for a task, and
\* the timer is stopped.
C37_Witness ==
    /\ last.op = "timeout" /\ state \in Workflow /\ ~timer
    /\ seg_service /\ image # NoItem
    /\ \E t \in Live : t.id = req_id

\* ---------------------------------------------------------------- C38
\* The step goes up one level while a search runs.
Backtracks ==
    /\ auto.is_searching
    /\ Len(auto'.history_stack) < Len(auto.history_stack)

\* The project or case the view leaves when it goes up one level.
Child ==
    IF auto.current_level = "image" THEN auto.current_case_id
    ELSE auto.current_project_id

\* No project and no case occurs twice among those seq records.
NoRepeat(seq) == \A i, j \in DOMAIN seq : seq[i] = seq[j] => i = j

\* C38: a search that was started ends, every list fetch being answered: it
\* selects an image, reports that there is no pending work, or stops on an
\* error; every backtrack puts the id of the child it leaves into the skip
\* set, and the search goes into no project and no case twice.
C38_SearchEnds ==
    /\ [](auto.is_searching => <>(~auto.is_searching))
    /\ [](~auto.is_searching /\ auto.searches > 0
            => auto.result \in {"selected", "no_work", "error", "interrupted"})
    /\ [][Backtracks => Child \in auto'.auto_skip_ids]_vars
    /\ [](NoRepeat(auto.descents))

\* A search has ended with "no pending work" after it went into three
\* projects or cases and put two ids into the skip set.
C38_Witness ==
    /\ ~auto.is_searching /\ auto.result = "no_work"
    /\ Len(auto.descents) >= 3
    /\ Cardinality(auto.auto_skip_ids) >= 2

\* ---------------------------------------------------------------- C39
\* Some project holds a case that holds an image left to annotate.
PendingWork == \E i \in Entities : tree.image_of[i] # 0

\* C39: the search reports that there is no pending work only if no project
\* holds a case with an image left to annotate, and the metadata of the image
\* it selects carries the case the image is in and the project of that
\* case; for every assignment of ids, also those that coincide across the
\* levels.
C39_SearchCompleteAndSound ==
    /\ (~auto.is_searching /\ auto.result = "no_work") => ~PendingWork
    /\ (~auto.is_searching /\ auto.result = "selected") =>
          /\ auto.selected.id \in Entities
          /\ tree.image_of[auto.selected.id] = auto.selected.case_id
          /\ tree.case_of[auto.selected.case_id] = auto.selected.project_id

\* ---------------------------------------------------------------- C40
\* The freeze_ui notifications of the step, in order.
Freezes(seq) ==
    SelectSeq(seq, LAMBDA e : e[1] \in {"freeze_on", "freeze_off"})

\* C40: the busy indication follows the workflow state: a step that enters
\* Switching or Submitting emits freeze_ui(True), a step that enters
\* Annotating ends with freeze_ui(False), and no step that leaves a workflow
\* state active emits freeze_ui(False), whichever Outcome it delivers.
C40_BusyFollowsWorkflow ==
    [][ /\ (state = "Annotating" /\ state' \in Workflow) =>
              Count(emits', "freeze_on") >= 1
        /\ (state \in Workflow /\ state' = "Annotating") =>
              /\ Freezes(emits') # << >>
              /\ Freezes(emits')[Len(Freezes(emits'))][1] = "freeze_off"
        /\ state' \in Workflow => Count(emits', "freeze_off") = 0
      ]_vars

====
